---- MODULE Spec2Model ----
(***************************************************************************)
(* State-machine model of the Tion cloud API client                        *)
(* (custom_components/tion/client.py, class TionClient): the debounced     *)
(* location cache, the re-authentication on 401 and the submit-then-poll   *)
(* command protocol.  Every await of the code is a point where the task    *)
(* is suspended: a request is issued in one step and answered in another.  *)
(*                                                                         *)
(* Time is counted in ticks of 0.5 s (the polling DELAY).  The code only   *)
(* ever compares differences of clock readings with a constant, so the     *)
(* model keeps each difference as a timer that Tick advances and that      *)
(* stops at the constant it is compared with.                              *)
(***************************************************************************)
EXTENDS Integers, Sequences, FiniteSets, TLC

VARIABLES
    authorization,  \* TionClient._authorization (NoAuth models None)
    auth_update_listeners, \* TionClient._auth_update_listeners
    locations,      \* TionClient._locations, the parsed snapshot
    since_update,   \* time() - TionClient._last_update
    loaded,         \* some GET /location was answered 200 since construction
    temp_lock,      \* TionClient._temp_lock: the task holding it, or Free
    active,         \* the host tasks that call the client
    pc,             \* per task: where the coroutine is suspended
    op,             \* per task: the public operation in progress
    force,          \* per task: the force argument of get_location_data
    arg,            \* per task: the guid argument of the lookup
    result,         \* per task: how the call ended
    out,            \* per task: what a lookup returned (devices or a zone)
    elapsed_time,   \* per task: loop.time() - start_time in _wait_for_task
    slept,          \* per task: time spent in asyncio.sleep(DELAY)
    n,              \* per task: requests issued by the call in progress
    ev,             \* per task: the last response the task handled
    got,            \* per task: snapshot parsed from the last 200 of the call
    told,           \* per task: the listener invocations of the call
    waited,         \* per task: the call found the lock held, and how the
                    \*           holder's refresh ended
    prev,           \* per task: what the host keeps of the call before
    sinceCall,      \* per task: time since that call was made
    within,         \* per task: this call was made less than one interval
                    \*           after that call was made
    req,            \* per task: the request the task issued last
    task_id,        \* per task: the task_id argument of _wait_for_task
    entity_device,  \* TionBreezerHeaterSwitch._device of the heater switch
    stale,          \* per task: "yes" when the lookup was made without
                    \*           force at least one interval after the last
                    \*           successful fetch, "refreshed" once a fetch
                    \*           of another call has succeeded since
    sync,           \* the legacy client (tion_api.py): a wait_for_task call
    climate         \* the climate entity of one breezer (climate.py)

vars == <<authorization, auth_update_listeners, locations, since_update,
          loaded, temp_lock, active, pc, op, force, arg, result, out,
          elapsed_time, slept, n, ev, got, told, waited, prev, sinceCall,
          within, req, task_id, entity_device, stale, sync, climate>>

\* the variables of the asynchronous client and of the heater switch
clientVars == <<authorization, auth_update_listeners, locations, since_update,
                loaded, temp_lock, active, pc, op, force, arg, result, out,
                elapsed_time, slept, n, ev, got, told, waited, prev,
                sinceCall, within, req, task_id, entity_device, stale>>

----------------------------------------------------------------------------
(* Bounds of the model and constants of the program *)

Tasks == {1, 2}
Free == 0
\* self._authorization is None
NoAuth == << >>
\* task ids the server may answer a queued command with
TaskIds == {"T1", "T2"}
\* a request posted without an Authorization header
NoHeader == <<"absent">>
\* the token request is posted without headers
TokenRequest == [kind |-> "token", task |-> "none",
                 headers |-> [Authorization |-> NoHeader]]
\* the task has issued no request
NoRequest == [kind |-> "none", task |-> "none",
              headers |-> [Authorization |-> NoHeader]]
\* no wait_for_task call of the legacy client has been made
NoSync == [pc |-> "idle", max_time |-> 0, polls |-> 0, refreshes |-> 0,
           ev |-> "none", result |-> "none"]
\* no heater switch has been set up
NoEntity == [device |-> << >>, cached |-> FALSE]
\* bodies the server may answer the token request with
Tokens == {[token_type |-> "bearer", access_token |-> "a1"],
           [token_type |-> "bearer", access_token |-> "a2"]}
\* the coroutines the host may register as listeners, and how many
Listeners == {"l1", "l2"}
MaxListeners == 2

\* f"{response['token_type']} {response['access_token']}"
Credential(r) == <<r.token_type, " ", r.access_token>>
\* the credential the config entry may hold from an earlier run
StoredAuth == Credential([token_type |-> "bearer", access_token |-> "a1"])
\* headers built once, from the credential of the config entry
HeadersStored(a) == [Authorization |-> StoredAuth]
\* _headers: the headers of a request to the API, built when it is issued
Headers(a) == [Authorization |-> a]
\* a request to the API: what it asks for, the task id in its URL, its headers
Request(kind, id, a) == [kind |-> kind, task |-> id, headers |-> Headers(a)]

\* asyncio.sleep(DELAY), DELAY = 0.5 s: one tick
DELAY == 1
\* the max_time parameter of _wait_for_task, in ticks; _send leaves it at
\* its default of 5 s, the model follows a budget of 1.5 s
max_time == 3
\* the min_update_interval_sec the client is constructed with, in ticks
MinUpdateInterval == 4
\* how many re-authentications one refresh may chain in the model
MaxReauth == 2

Min(a, b) == IF a < b THEN a ELSE b

----------------------------------------------------------------------------
(* The location payload and the entity model *)

\* JSON null, a key that is absent (dict.get gives None for both), None
Null == "null"
\* no climate entity has been set up
NoClimate ==
    [pc |-> "none", type |-> "none", mode |-> Null, zone_valid |-> FALSE,
     breezer_valid |-> FALSE, gate |-> Null, speed |-> Null,
     swing_modes |-> << >>, op |-> "none", arg |-> "none", cmds |-> << >>,
     end |-> "none", new_speed |-> 0, before |-> << >>]

\* a device of the payload: guid, is_online, data.co2, data.data_valid,
\* data.heater_enabled ("true", "false" or Null), data.t_set and data.speed
\* (the text of the JSON value, or Null)
DevH(g, d, dv, o, h, ts, sp) ==
    [guid |-> g, is_online |-> o,
     data |-> [co2 |-> d, data_valid |-> dv, heater_enabled |-> h,
               t_set |-> ts, speed |-> sp]]
\* a breezer that is online, heater off, t_set 20, speed 2
DevV(g, d, dv) == DevH(g, d, dv, "true", "false", "20", "2")
\* a device whose data has no data_valid
DevJ(g, d) == DevV(g, d, Null)
ZoneJ(g, v, ds) == [guid |-> g, is_virtual |-> v, devices |-> ds]
LocJ(g, zs) == [guid |-> g, zones |-> zs]

PayloadA ==
    << LocJ("L1", << ZoneJ("Z1", FALSE, <<DevJ("d1", 0), DevJ("d2", 0)>>),
                     ZoneJ("Zv", TRUE, <<DevJ("d3", 0)>>) >>) >>
PayloadB ==
    << LocJ("L1", << ZoneJ("Z1", FALSE, <<DevJ("d1", 1), DevJ("d2", 0)>>) >>),
       LocJ("L2", << ZoneJ("Z2", FALSE, <<DevJ("d4", 0)>>) >>) >>
PayloadEmpty == << >>
\* locations, zones and devices out of alphabetical order, a device listed
\* in two zones, a zone without devices
PayloadC ==
    << LocJ("L2", << ZoneJ("Z2", FALSE, <<DevJ("d4", 0), DevJ("d1", 0)>>) >>),
       LocJ("L1", << ZoneJ("Z3", FALSE, << >>),
                     ZoneJ("Z1", FALSE, <<DevJ("d1", 0)>>) >>) >>
\* devices with and without guid, with data_valid true, false and absent
PayloadV ==
    << LocJ("L3", << ZoneJ("Z5", FALSE,
                        <<DevV("d5", 0, "true"), DevV("d6", 0, "false"),
                          DevV("d7", 0, Null)>>),
                     ZoneJ("Z6", FALSE,
                        <<DevV(Null, 0, "true"), DevV(Null, 0, "false"),
                          DevV(Null, 0, Null)>>) >>) >>

\* one breezer d1: t_set and speed numbers; t_set not a number; speed
\* absent; t_set absent; the breezer offline
PayloadH1 ==
    << LocJ("L1", << ZoneJ("Z1", FALSE,
                        <<DevH("d1", 0, Null, "true", "false", "20", "2")>>) >>) >>
PayloadH2 ==
    << LocJ("L1", << ZoneJ("Z1", FALSE,
                        <<DevH("d1", 0, Null, "true", "false", "warm", "2")>>) >>) >>
PayloadH3 ==
    << LocJ("L1", << ZoneJ("Z1", FALSE,
                        <<DevH("d1", 0, Null, "true", "true", "20", Null)>>) >>) >>
PayloadH4 ==
    << LocJ("L1", << ZoneJ("Z1", FALSE,
                        <<DevH("d1", 0, Null, "true", "false", Null, "2")>>) >>) >>
PayloadH5 ==
    << LocJ("L1", << ZoneJ("Z1", FALSE,
                        <<DevH("d1", 0, Null, "false", "false", "20", "2")>>) >>) >>

\* a virtual zone that lists a device of a real zone and a device of its own
PayloadW ==
    << LocJ("L1", << ZoneJ("Zv", TRUE, <<DevJ("d1", 0), DevJ("d3", 0)>>),
                     ZoneJ("Z1", FALSE, <<DevJ("d1", 1)>>) >>) >>

\* bodies the server may answer GET /location with
Payloads == {PayloadA, PayloadB, PayloadEmpty}
\* the bodies the lookups are checked on
ScanPayloads == {PayloadA, PayloadC, PayloadV, PayloadW}
\* the bodies the heater switch is checked on
EntityPayloads == {PayloadH1, PayloadH2, PayloadH3, PayloadH4, PayloadH5}
\* the breezer the heater switch is set up for
EntityGuid == "d1"

Guids == {"d1", "d9"}
ZoneGuids == {"Z1", "Z9"}
\* guids get_device_zone is asked for: a device of a virtual zone and a
\* device of the second location
DeviceZoneGuids == {"d3", "d4"}

TionZoneDeviceData(d) ==
    [co2 |-> d.co2, data_valid |-> d.data_valid,
     heater_enabled |-> d.heater_enabled, t_set |-> d.t_set, speed |-> d.speed]

TionZoneDevice(d) ==
    [guid |-> d.guid, is_online |-> d.is_online,
     data |-> TionZoneDeviceData(d.data)]

\* variant of valid that looks at the guid only
ValidGuidOnly(dev) == dev.guid # Null

\* variant of valid that wants a guid and data_valid true
ValidBoth(dev) == dev.guid # Null /\ dev.data.data_valid = "true"

\* TionZoneDevice.valid: data_valid when it is not None, else whether the
\* guid is not None
Valid(dev) ==
    IF dev.data.data_valid # Null
    THEN dev.data.data_valid = "true"
    ELSE dev.guid # Null

TionZone(z) ==
    [guid |-> z.guid,
     devices |-> [i \in 1..Len(z.devices) |-> TionZoneDevice(z.devices[i])]]

\* variant of the filter that keeps every zone
NotVirtualAny(z) == TRUE

\* if not zone.get("is_virtual")
NotVirtual(z) == ~z.is_virtual

TionLocation(l) ==
    LET kept == SelectSeq(l.zones, NotVirtual)
    IN  [guid |-> l.guid, zones |-> [i \in 1..Len(kept) |-> TionZone(kept[i])]]

\* [TionLocation(location) for location in await response.json()]
ParseLocations(p) == [i \in 1..Len(p) |-> TionLocation(p[i])]

RECURSIVE ZoneDevices(_)
ZoneDevices(zs) ==
    IF zs = << >> THEN << >> ELSE Head(zs).devices \o ZoneDevices(Tail(zs))

\* variant of get_devices that lists the devices last to first
AllDevicesBackwards(ls) ==
    LET ds == ZoneDevices([i \in 1..Len(ls) |->
                              [devices |-> ZoneDevices(ls[i].zones)]])
    IN  [i \in 1..Len(ds) |-> ds[Len(ds) + 1 - i]]

RECURSIVE AllDevices(_)
\* the comprehension of get_devices: location, then zone, then device order
AllDevices(ls) ==
    IF ls = << >> THEN << >> ELSE ZoneDevices(Head(ls).zones) \o AllDevices(Tail(ls))

\* the first device of a list with the guid, as a list of at most one
FirstWithGuid(ds, g) ==
    LET hits == SelectSeq(ds, LAMBDA d : d.guid = g)
    IN  IF hits = << >> THEN << >> ELSE <<Head(hits)>>

\* variant of the scan of get_device that takes the first device of the
\* snapshot without comparing guids
FindDeviceAny(ls, g) ==
    IF AllDevices(ls) = << >> THEN << >> ELSE <<Head(AllDevices(ls))>>

\* the scan of get_device: location, then zone, then device order
FindDevice(ls, g) == FirstWithGuid(AllDevices(ls), g)

RECURSIVE AllZones(_)
\* the zones of the snapshot, location by location
AllZones(ls) ==
    IF ls = << >> THEN << >> ELSE Head(ls).zones \o AllZones(Tail(ls))

\* the scan of get_zone: the first zone with the guid
FindZone(ls, g) == FirstWithGuid(AllZones(ls), g)

HasDevice(z, g) == \E i \in 1..Len(z.devices) : z.devices[i].guid = g

\* variant of the scan of get_device_zone that stops after the first
\* location
FindDeviceZoneFirstLocation(ls, g) ==
    LET zs == IF ls = << >> THEN << >> ELSE Head(ls).zones
        hits == SelectSeq(zs, LAMBDA z : HasDevice(z, g))
    IN  IF hits = << >> THEN << >> ELSE <<Head(hits)>>

\* the scan of get_device_zone: the first zone, in location then zone
\* order, one of whose devices has the guid
FindDeviceZone(ls, g) ==
    LET hits == SelectSeq(AllZones(ls), LAMBDA z : HasDevice(z, g))
    IN  IF hits = << >> THEN << >> ELSE <<Head(hits)>>

----------------------------------------------------------------------------
(* Calls *)

Lookups == {"get_location_data", "get_devices", "get_device", "get_zone",
            "get_device_zone"}
\* the guids a lookup may be called with ("none": the lookup takes no guid)
GuidArgs(o) ==
    CASE o = "get_device" -> Guids
      [] o = "get_device_zone" -> DeviceZoneGuids
      [] o = "get_zone" -> ZoneGuids
      [] OTHER -> {"none"}
\* the guids the lookups over trees of every shape are called with: those
\* of GuidArgs and the guids of a virtual zone and of its device
ScanGuidArgs(o) ==
    GuidArgs(o) \cup (CASE o = "get_device" -> {"d3"}
                        [] o = "get_zone" -> {"Zv"}
                        [] OTHER -> {})
SendOps == {"send_breezer", "send_zone", "send_settings"}

\* post, poll: POSTs of the command and GETs of the task issued by the call;
\* raised: GETs of the task that failed with a transport exception;
\* refresh: calls of get_location_data; fetch, auth: GETs of the location
\* and token requests issued by the latest of them; authfail: whether a
\* token request of the call has failed (0 or 1)
ZeroCount == [post |-> 0, poll |-> 0, raised |-> 0, refresh |-> 0, fetch |-> 0,
              auth |-> 0, authfail |-> 0]
NoPrev == [op |-> "none", ev |-> "none", out |-> << >>, fetch |-> 0]

\* TionClient.__init__.  _last_update = 0 and time() is the Unix time, so
\* the first comparison with the interval finds the interval elapsed.
Init ==
    /\ authorization \in {NoAuth, StoredAuth}
    /\ auth_update_listeners = << >>
    /\ locations = << >>
    /\ since_update = MinUpdateInterval
    /\ loaded = FALSE
    /\ temp_lock = Free
    /\ active = {1}
    /\ pc = [t \in Tasks |-> "idle"]
    /\ op = [t \in Tasks |-> "none"]
    /\ force = [t \in Tasks |-> FALSE]
    /\ arg = [t \in Tasks |-> "none"]
    /\ result = [t \in Tasks |-> "none"]
    /\ out = [t \in Tasks |-> << >>]
    /\ elapsed_time = [t \in Tasks |-> 0]
    /\ slept = [t \in Tasks |-> 0]
    /\ n = [t \in Tasks |-> ZeroCount]
    /\ ev = [t \in Tasks |-> "none"]
    /\ got = [t \in Tasks |-> << >>]
    /\ told = [t \in Tasks |-> << >>]
    /\ waited = [t \in Tasks |-> "no"]
    /\ prev = [t \in Tasks |-> NoPrev]
    /\ sinceCall = [t \in Tasks |-> MinUpdateInterval]
    /\ within = [t \in Tasks |-> FALSE]
    /\ req = [t \in Tasks |-> NoRequest]
    /\ task_id = [t \in Tasks |-> "none"]
    /\ entity_device = NoEntity
    /\ stale = [t \in Tasks |-> "no"]
    /\ sync = NoSync
    /\ climate = NoClimate

\* the call returns r (and the devices o) to the host
Finish(t, r, o) ==
    /\ pc' = [pc EXCEPT ![t] = "done"]
    /\ result' = [result EXCEPT ![t] = r]
    /\ out' = [out EXCEPT ![t] = o]
    /\ slept' = slept

\* asyncio.sleep(DELAY) in _wait_for_task
Sleep(t) ==
    /\ pc' = [pc EXCEPT ![t] = "sleep"]
    /\ slept' = [slept EXCEPT ![t] = 0]
    /\ UNCHANGED <<result, out,
                  req, task_id, entity_device,
                   stale, sync, climate>>

Bool(b) == IF b THEN "True" ELSE "False"

\* variant of the return into _wait_for_task that drops the value of the
\* refresh: self.get_location_data(force=True); return True
GldReturnDropped(t, v, ls) ==
    CASE op[t] = "get_devices" ->
            Finish(t, "list", IF v THEN AllDevices(ls) ELSE << >>)
      [] op[t] = "get_device" ->
            LET d == IF v THEN FindDevice(ls, arg[t]) ELSE << >>
            IN  Finish(t, IF d = << >> THEN "None" ELSE "device", d)
      [] op[t] = "get_zone" ->
            LET z == IF v THEN FindZone(ls, arg[t]) ELSE << >>
            IN  Finish(t, IF z = << >> THEN "None" ELSE "zone", z)
      [] op[t] = "get_device_zone" ->
            LET z == IF v THEN FindDeviceZone(ls, arg[t]) ELSE << >>
            IN  Finish(t, IF z = << >> THEN "None" ELSE "zone", z)
      [] op[t] \in SendOps -> Finish(t, "True", << >>)
      [] op[t] = "authorization" ->
            Finish(t, IF v THEN "credential" ELSE "None",
                      IF v THEN authorization ELSE << >>)
      [] OTHER -> Finish(t, Bool(v), << >>)

\* variant of the lookups that scans the snapshot held whatever the
\* refresh returned
GldReturnStale(t, v, ls) ==
    CASE op[t] = "get_devices" -> Finish(t, "list", AllDevices(ls))
      [] op[t] = "get_device" ->
            LET d == FindDevice(ls, arg[t])
            IN  Finish(t, IF d = << >> THEN "None" ELSE "device", d)
      [] op[t] = "get_zone" ->
            LET z == FindZone(ls, arg[t])
            IN  Finish(t, IF z = << >> THEN "None" ELSE "zone", z)
      [] op[t] = "get_device_zone" ->
            LET z == FindDeviceZone(ls, arg[t])
            IN  Finish(t, IF z = << >> THEN "None" ELSE "zone", z)
      [] op[t] = "authorization" ->
            Finish(t, IF v THEN "credential" ELSE "None",
                      IF v THEN authorization ELSE << >>)
      [] OTHER -> Finish(t, Bool(v), << >>)

\* get_location_data (for the authorization property: _get_data) returns
\* v; ls is the snapshot at that moment.  The lookups, _wait_for_task and
\* the property continue without suspending.
GldReturn(t, v, ls) ==
    CASE op[t] = "get_devices" ->
            Finish(t, "list", IF v THEN AllDevices(ls) ELSE << >>)
      [] op[t] = "get_device" ->
            LET d == IF v THEN FindDevice(ls, arg[t]) ELSE << >>
            IN  Finish(t, IF d = << >> THEN "None" ELSE "device", d)
      [] op[t] = "get_zone" ->
            LET z == IF v THEN FindZone(ls, arg[t]) ELSE << >>
            IN  Finish(t, IF z = << >> THEN "None" ELSE "zone", z)
      [] op[t] = "get_device_zone" ->
            LET z == IF v THEN FindDeviceZone(ls, arg[t]) ELSE << >>
            IN  Finish(t, IF z = << >> THEN "None" ELSE "zone", z)
      [] op[t] = "authorization" ->
            Finish(t, IF v THEN "credential" ELSE "None",
                      IF v THEN authorization ELSE << >>)
      [] OTHER -> Finish(t, Bool(v), << >>)

\* a ClientError or TimeoutError leaves get_location_data: the lookups let it
\* through to the host, the try of _wait_for_task catches it and sleeps
GldRaise(t) ==
    IF op[t] \in SendOps
    THEN Sleep(t)
    ELSE Finish(t, "raised", << >>)

\* What the host keeps of a finished call, for the next one to be compared
\* with: the list of a get_devices without force, or the devices of the
\* snapshot a successful send_* left behind.
Remember(t) ==
    IF op[t] = "get_devices" /\ ~force[t]
    THEN [op |-> op[t], ev |-> ev[t], out |-> out[t], fetch |-> n[t].fetch]
    ELSE IF op[t] \in SendOps /\ result[t] = "True"
    THEN [op |-> op[t], ev |-> ev[t], out |-> AllDevices(got[t]), fetch |-> n[t].fetch]
    ELSE NoPrev

\* a lookup without force is compared with the call before it
Compared(o, f) == o \in {"get_devices", "get_device"} /\ ~f

\* whether a call reaching the lock now finds it held
Waits == IF temp_lock = Free THEN "no" ELSE "wait"

\* the host calls get_location_data or one of the four lookups
CallLookup(t, o, f, g) ==
    /\ t \in active /\ pc[t] = "idle"
    /\ pc' = [pc EXCEPT ![t] = "lock"]
    /\ op' = [op EXCEPT ![t] = o]
    /\ force' = [force EXCEPT ![t] = f]
    /\ arg' = [arg EXCEPT ![t] = g]
    /\ result' = [result EXCEPT ![t] = "pending"]
    /\ n' = [n EXCEPT ![t] = [ZeroCount EXCEPT !.refresh = 1]]
    /\ ev' = [ev EXCEPT ![t] = "call"]
    /\ within' = [within EXCEPT ![t] =
                      Compared(o, f) /\ sinceCall[t] < MinUpdateInterval]
    /\ sinceCall' = [sinceCall EXCEPT ![t] =
                      IF o = "get_devices" /\ ~f THEN 0 ELSE MinUpdateInterval]
    /\ prev' = [prev EXCEPT ![t] = IF Compared(o, f) THEN @ ELSE NoPrev]
    /\ waited' = [waited EXCEPT ![t] = Waits]
    /\ stale' = [stale EXCEPT ![t] =
                     IF ~f /\ since_update >= MinUpdateInterval
                     THEN "yes" ELSE "no"]
    /\ UNCHANGED <<authorization, locations, since_update, loaded, temp_lock,
                   active, auth_update_listeners, told, out, elapsed_time,
                   slept, got,
                  req, task_id, entity_device,
                   sync, climate>>

\* send_breezer / send_zone / send_settings: _send posts the command
CallSend(t, o) ==
    /\ t \in active /\ pc[t] = "idle"
    /\ pc' = [pc EXCEPT ![t] = "post_wait"]
    /\ op' = [op EXCEPT ![t] = o]
    /\ result' = [result EXCEPT ![t] = "pending"]
    /\ n' = [n EXCEPT ![t] = [ZeroCount EXCEPT !.post = 1]]
    /\ ev' = [ev EXCEPT ![t] = "call"]
    /\ sinceCall' = [sinceCall EXCEPT ![t] = MinUpdateInterval]
    /\ prev' = [prev EXCEPT ![t] = NoPrev]
    /\ req' = [req EXCEPT ![t] = Request("command", "none", authorization)]
    /\ UNCHANGED <<authorization, locations, since_update, loaded, temp_lock,
                   active, auth_update_listeners, told, waited, force, arg, out, elapsed_time, slept, got, within,
                  task_id, entity_device,
                   stale, sync, climate>>

\* the host awaits the authorization property: without a credential
\* _get_authorization posts the password grant, with one _get_data issues
\* GET /location; neither is under the lock
CallAuthorization(t) ==
    /\ t \in active /\ pc[t] = "idle"
    /\ pc' = [pc EXCEPT ![t] =
                 IF authorization = NoAuth THEN "auth_wait" ELSE "get_wait"]
    /\ op' = [op EXCEPT ![t] = "authorization"]
    /\ result' = [result EXCEPT ![t] = "pending"]
    /\ n' = [n EXCEPT ![t] =
                 IF authorization = NoAuth
                 THEN [ZeroCount EXCEPT !.auth = 1]
                 ELSE [ZeroCount EXCEPT !.fetch = 1]]
    /\ ev' = [ev EXCEPT ![t] = "call"]
    /\ sinceCall' = [sinceCall EXCEPT ![t] = MinUpdateInterval]
    /\ prev' = [prev EXCEPT ![t] = NoPrev]
    /\ req' = [req EXCEPT ![t] = IF authorization = NoAuth
                  THEN TokenRequest
                  ELSE Request("location", "none", authorization)]
    /\ UNCHANGED <<authorization, auth_update_listeners, locations,
                   since_update, loaded, temp_lock, active, force, arg, out,
                   elapsed_time, slept, got, told, waited, within,
                  task_id, entity_device,
                   stale, sync, climate>>

\* add_update_listener: the host registers the coroutine l
AddUpdateListener(l) ==
    /\ Len(auth_update_listeners) < MaxListeners
    /\ auth_update_listeners' = Append(auth_update_listeners, l)
    /\ UNCHANGED <<authorization, locations, since_update, loaded, temp_lock,
                   active, pc, op, force, arg, result, out, elapsed_time,
                   slept, n, ev, got, told, waited, prev, sinceCall, within,
                  req, task_id, entity_device,
                   stale, sync, climate>>

\* the host has the result; the locals of the call are gone
Return(t) ==
    /\ pc[t] = "done"
    /\ prev' = [prev EXCEPT ![t] = Remember(t)]
    /\ pc' = [pc EXCEPT ![t] = "idle"]
    /\ op' = [op EXCEPT ![t] = "none"]
    /\ force' = [force EXCEPT ![t] = FALSE]
    /\ arg' = [arg EXCEPT ![t] = "none"]
    /\ result' = [result EXCEPT ![t] = "none"]
    /\ out' = [out EXCEPT ![t] = << >>]
    /\ elapsed_time' = [elapsed_time EXCEPT ![t] = 0]
    /\ slept' = [slept EXCEPT ![t] = 0]
    /\ n' = [n EXCEPT ![t] = ZeroCount]
    /\ ev' = [ev EXCEPT ![t] = "none"]
    /\ got' = [got EXCEPT ![t] = << >>]
    /\ within' = [within EXCEPT ![t] = FALSE]
    /\ told' = [told EXCEPT ![t] = << >>]
    /\ waited' = [waited EXCEPT ![t] = "no"]
    /\ req' = [req EXCEPT ![t] = NoRequest]
    /\ task_id' = [task_id EXCEPT ![t] = "none"]
    /\ stale' = [stale EXCEPT ![t] = "no"]
    /\ UNCHANGED <<authorization, locations, since_update, loaded, temp_lock,
                   active, auth_update_listeners, sinceCall,
                  entity_device,
                   sync, climate>>

----------------------------------------------------------------------------
(* get_location_data, _get_data and _get_authorization *)

\* variants of the debounce test: off by one tick, and blind to force
RecentlyUpdatedStrict(f) == ~f /\ since_update + 1 < MinUpdateInterval
RecentlyUpdatedAnyForce(f) == since_update < MinUpdateInterval

\* variant of the debounce test that still holds when the interval has
\* just passed
RecentlyUpdatedLate(f) == ~f /\ since_update <= MinUpdateInterval

\* not force and (time() - self._last_update) < self._min_update_interval
RecentlyUpdated(f) == ~f /\ since_update < MinUpdateInterval

\* variant of the skipped refresh: self._locations is None
SkipValueNone == FALSE

\* the value of the skipped refresh: self._locations is not None
\* (_locations is a list from the constructor on and is never set to None)
SkipValue == TRUE

\* variant of the release that keeps the lock when the refresh failed
ReleaseOnSuccess(t, how) ==
    /\ temp_lock' = IF temp_lock = t /\ how = "ok" THEN Free ELSE temp_lock
    /\ waited' = [u \in Tasks |->
                     IF u # t /\ temp_lock = t /\ pc[u] = "lock"
                     THEN how ELSE waited[u]]

\* the async with of get_location_data is left: the lock is released if
\* the task holds it (the authorization property runs without it); how
\* holds how the refresh ended, for a task waiting for the lock
Release(t, how) ==
    /\ temp_lock' = IF temp_lock = t THEN Free ELSE temp_lock
    /\ waited' = [u \in Tasks |->
                     IF u # t /\ temp_lock = t /\ pc[u] = "lock"
                     THEN how ELSE waited[u]]

\* get_location_data takes the lock and skips the request
Debounced(t) ==
    /\ pc[t] = "lock" /\ temp_lock = Free
    /\ RecentlyUpdated(force[t])
    /\ GldReturn(t, SkipValue, locations)
    /\ ev' = [ev EXCEPT ![t] = "skip"]
    /\ UNCHANGED <<authorization, locations, since_update, loaded, temp_lock,
                   active, auth_update_listeners, told, waited, op, force, arg, elapsed_time, n, got, prev,
                   sinceCall, within,
                  req, task_id, entity_device,
                   stale, sync, climate>>

\* variant of the fetch that does not wait for the lock
FetchUnlocked(t) ==
    /\ pc[t] = "lock"
    /\ ~RecentlyUpdated(force[t])
    /\ temp_lock' = t
    /\ pc' = [pc EXCEPT ![t] = "get_wait"]
    /\ n' = [n EXCEPT ![t].fetch = @ + 1]
    /\ req' = [req EXCEPT ![t] = Request("location", "none", authorization)]
    /\ UNCHANGED <<authorization, locations, since_update, loaded, active, auth_update_listeners, told, waited,
                   op, force, arg, result, out, elapsed_time, slept, ev, got,
                   prev, sinceCall, within,
                  task_id, entity_device,
                   stale, sync, climate>>

\* get_location_data takes the lock and _get_data issues GET /location
Fetch(t) ==
    /\ pc[t] = "lock" /\ temp_lock = Free
    /\ ~RecentlyUpdated(force[t])
    /\ temp_lock' = t
    /\ pc' = [pc EXCEPT ![t] = "get_wait"]
    /\ n' = [n EXCEPT ![t].fetch = @ + 1]
    /\ req' = [req EXCEPT ![t] = Request("location", "none", authorization)]
    /\ UNCHANGED <<authorization, locations, since_update, loaded, active, auth_update_listeners, told, waited,
                   op, force, arg, result, out, elapsed_time, slept, ev, got,
                   prev, sinceCall, within,
                  task_id, entity_device,
                   stale, sync, climate>>

\* variant of the 200 that adds the parsed locations to the snapshot held
LocOKAppends(t, p) ==
    /\ pc[t] = "get_wait"
    /\ locations' = locations \o ParseLocations(p)
    /\ since_update' = 0
    /\ loaded' = TRUE
    /\ Release(t, "ok")
    /\ GldReturn(t, TRUE, locations')
    /\ ev' = [ev EXCEPT ![t] = "loc_200"]
    /\ got' = [got EXCEPT ![t] = locations']
    /\ entity_device' = [entity_device EXCEPT !.cached = FALSE]
    /\ stale' = [u \in Tasks |->
                     IF u = t \/ stale[u] = "no" THEN stale[u] ELSE "refreshed"]
    /\ UNCHANGED <<authorization, active, auth_update_listeners, told, op,
                   force, arg, elapsed_time, n, prev, sinceCall, within,
                   req, task_id, sync, climate>>

\* GET /location answers 200 with the payload p
LocOK(t, p) ==
    /\ pc[t] = "get_wait"
    /\ locations' = ParseLocations(p)
    /\ since_update' = 0
    /\ loaded' = TRUE
    /\ Release(t, "ok")
    /\ GldReturn(t, TRUE, locations')
    /\ ev' = [ev EXCEPT ![t] = "loc_200"]
    /\ got' = [got EXCEPT ![t] = locations']
    /\ entity_device' = [entity_device EXCEPT !.cached = FALSE]
    /\ stale' = [u \in Tasks |->
                     IF u = t \/ stale[u] = "no" THEN stale[u] ELSE "refreshed"]
    /\ UNCHANGED <<authorization, active, auth_update_listeners, told, op,
                   force, arg, elapsed_time, n, prev, sinceCall, within,
                   req, task_id, sync, climate>>

\* GET /location answers 401: _get_authorization posts the password grant
Loc401(t) ==
    /\ pc[t] = "get_wait"
    /\ n[t].auth < MaxReauth
    /\ pc' = [pc EXCEPT ![t] = "auth_wait"]
    /\ n' = [n EXCEPT ![t].auth = @ + 1]
    /\ ev' = [ev EXCEPT ![t] = "loc_401"]
    /\ req' = [req EXCEPT ![t] = TokenRequest]
    /\ UNCHANGED <<authorization, locations, since_update, loaded, temp_lock,
                   active, auth_update_listeners, told, waited, op, force, arg, result, out, elapsed_time, slept,
                   got, prev, sinceCall, within,
                  task_id, entity_device,
                   stale, sync, climate>>

\* variant of the failed fetch that sets _last_update all the same
LocOtherArms(t, json) ==
    /\ pc[t] = "get_wait"
    /\ since_update' = 0
    /\ Release(t, "failed")
    /\ IF json THEN GldReturn(t, FALSE, locations) ELSE GldRaise(t)
    /\ ev' = [ev EXCEPT ![t] = IF json THEN "loc_other" ELSE "loc_raise"]
    /\ UNCHANGED <<authorization, locations, loaded, active,
                   auth_update_listeners, told, op, force, arg, elapsed_time,
                   n, got, prev, sinceCall, within, req, task_id,
                   entity_device, stale, sync, climate>>

\* GET /location answers another status; the error log awaits
\* response.json(), which raises ContentTypeError when the body is not JSON
LocOther(t, json) ==
    /\ pc[t] = "get_wait"
    /\ Release(t, "failed")
    /\ IF json THEN GldReturn(t, FALSE, locations) ELSE GldRaise(t)
    /\ ev' = [ev EXCEPT ![t] = IF json THEN "loc_other" ELSE "loc_raise"]
    /\ UNCHANGED <<authorization, locations, since_update, loaded, active, auth_update_listeners, told,
                   op, force, arg, elapsed_time, n, got, prev, sinceCall,
                   within,
                  req, task_id, entity_device,
                   stale, sync, climate>>

\* GET /location fails with a ClientError or a TimeoutError
LocExc(t) ==
    /\ pc[t] = "get_wait"
    /\ Release(t, "failed")
    /\ GldRaise(t)
    /\ ev' = [ev EXCEPT ![t] = "loc_raise"]
    /\ UNCHANGED <<authorization, locations, since_update, loaded, active, auth_update_listeners, told,
                   op, force, arg, elapsed_time, n, got, prev, sinceCall,
                   within,
                  req, task_id, entity_device,
                   stale, sync, climate>>

\* variant of the invocations that goes through the list backwards
InvocationsReversed(m, c) ==
    [i \in 1..m |->
        [listener |-> auth_update_listeners[Len(auth_update_listeners) + 1 - i],
         auth |-> c]]

\* the listener invocations of one authentication: the first m listeners,
\* in the order of the list, each with the credential c
Invocations(m, c) ==
    [i \in 1..m |-> [listener |-> auth_update_listeners[i], auth |-> c]]

\* the token request answers 200 with the body r: the credential is
\* replaced and the listeners are awaited one after the other (the listener
\* of the integration does not suspend).  k = 0: every listener returns;
\* otherwise listener k raises and the exception, which is not a
\* ClientError, leaves the public operation.  When no listener raises,
\* _get_data calls itself, issuing GET /location again; the authorization
\* property, when it authenticated on its own, returns the credential.
AuthOK(t, r, k) ==
    /\ pc[t] = "auth_wait"
    /\ k \in 0..Len(auth_update_listeners)
    /\ authorization' = Credential(r)
    /\ told' = [told EXCEPT ![t] = @ \o
                   Invocations(IF k = 0 THEN Len(auth_update_listeners) ELSE k,
                               authorization')]
    /\ IF k # 0
       THEN /\ Finish(t, "raised", << >>)
            /\ Release(t, "failed")
            /\ n' = n
            /\ ev' = [ev EXCEPT ![t] = "listener_raise"]
            /\ req' = req
       ELSE /\ ev' = [ev EXCEPT ![t] = "auth_200"]
            /\ IF n[t].fetch = 0
               THEN /\ Finish(t, "credential", authorization')
                    /\ n' = n
                    /\ UNCHANGED <<temp_lock, waited, req>>
               ELSE /\ pc' = [pc EXCEPT ![t] = "get_wait"]
                    /\ n' = [n EXCEPT ![t].fetch = @ + 1]
                    /\ req' = [req EXCEPT ![t] =
                                  Request("location", "none", authorization')]
                    /\ UNCHANGED <<temp_lock, waited, result, out, slept>>
    /\ UNCHANGED <<auth_update_listeners, locations, since_update, loaded,
                   active, op, force, arg, elapsed_time, got, prev, sinceCall,
                   within,
                   task_id, entity_device,
                   stale, sync, climate>>

\* variant of the failed token request that forgets the credential held
AuthFailClears(t, json) ==
    /\ pc[t] = "auth_wait"
    /\ authorization' = NoAuth
    /\ Release(t, "failed")
    /\ IF json THEN GldReturn(t, FALSE, locations) ELSE GldRaise(t)
    /\ ev' = [ev EXCEPT ![t] = IF json THEN "auth_fail" ELSE "auth_raise"]
    /\ n' = [n EXCEPT ![t].authfail = 1]
    /\ UNCHANGED <<locations, since_update, loaded, active, auth_update_listeners, told,
                   op, force, arg, elapsed_time, got, prev, sinceCall,
                   within,
                  req, task_id, entity_device,
                   stale, sync, climate>>

\* the token request answers another status: _get_authorization returns
\* False (its error log awaits response.json() as well)
AuthFail(t, json) ==
    /\ pc[t] = "auth_wait"
    /\ Release(t, "failed")
    /\ IF json THEN GldReturn(t, FALSE, locations) ELSE GldRaise(t)
    /\ ev' = [ev EXCEPT ![t] = IF json THEN "auth_fail" ELSE "auth_raise"]
    /\ n' = [n EXCEPT ![t].authfail = 1]
    /\ UNCHANGED <<authorization, locations, since_update, loaded, active, auth_update_listeners, told,
                   op, force, arg, elapsed_time, got, prev, sinceCall,
                   within,
                  req, task_id, entity_device,
                   stale, sync, climate>>

\* the token request fails with a ClientError or a TimeoutError
AuthExc(t) ==
    /\ pc[t] = "auth_wait"
    /\ Release(t, "failed")
    /\ GldRaise(t)
    /\ ev' = [ev EXCEPT ![t] = "auth_raise"]
    /\ n' = [n EXCEPT ![t].authfail = 1]
    /\ UNCHANGED <<authorization, locations, since_update, loaded, active, auth_update_listeners, told,
                   op, force, arg, elapsed_time, got, prev, sinceCall,
                   within,
                  req, task_id, entity_device,
                   stale, sync, climate>>

----------------------------------------------------------------------------
(* _send and _wait_for_task *)

\* variant of the timeout test that gives up one tick early
BudgetSpentEarly(t) == elapsed_time[t] + 1 >= max_time

\* elapsed_time >= max_time at the top of the polling loop
BudgetSpent(t) == elapsed_time[t] >= max_time

\* the command is answered with status "queued" and a task id:
\* _wait_for_task reads start_time and issues the first GET /task
SubmitQueued(t, id) ==
    /\ pc[t] = "post_wait"
    /\ task_id' = [task_id EXCEPT ![t] = id]
    /\ elapsed_time' = [elapsed_time EXCEPT ![t] = 0]
    /\ pc' = [pc EXCEPT ![t] = "poll_wait"]
    /\ n' = [n EXCEPT ![t].poll = @ + 1]
    /\ ev' = [ev EXCEPT ![t] = "queued"]
    /\ req' = [req EXCEPT ![t] = Request("task", id, authorization)]
    /\ UNCHANGED <<authorization, locations, since_update, loaded, temp_lock,
                   active, auth_update_listeners, told, waited, op, force, arg, result, out, slept, got, prev,
                   sinceCall, within,
                  entity_device,
                   stale, sync, climate>>

\* variant of the rejection that goes on to wait for a task
SubmitRejectedWaits(t) ==
    /\ pc[t] = "post_wait"
    /\ elapsed_time' = [elapsed_time EXCEPT ![t] = 0]
    /\ pc' = [pc EXCEPT ![t] = "poll_wait"]
    /\ n' = [n EXCEPT ![t].poll = @ + 1]
    /\ ev' = [ev EXCEPT ![t] = "rejected"]
    /\ UNCHANGED <<authorization, locations, since_update, loaded, temp_lock,
                   active, auth_update_listeners, told, waited, op, force, arg, result, out, slept, got, prev,
                   sinceCall, within,
                  req, task_id, entity_device,
                   stale, sync, climate>>

\* the command is answered with another status and a description
SubmitRejected(t) ==
    /\ pc[t] = "post_wait"
    /\ Finish(t, "False", << >>)
    /\ ev' = [ev EXCEPT ![t] = "rejected"]
    /\ UNCHANGED <<authorization, locations, since_update, loaded, temp_lock,
                   active, auth_update_listeners, told, waited, op, force, arg, elapsed_time, n, got, prev,
                   sinceCall, within,
                  req, task_id, entity_device,
                   stale, sync, climate>>

\* the POST fails with a ClientError or a TimeoutError: _send has no handler
SubmitExc(t) ==
    /\ pc[t] = "post_wait"
    /\ Finish(t, "raised", << >>)
    /\ ev' = [ev EXCEPT ![t] = "post_raise"]
    /\ UNCHANGED <<authorization, locations, since_update, loaded, temp_lock,
                   active, auth_update_listeners, told, waited, op, force, arg, elapsed_time, n, got, prev,
                   sinceCall, within,
                  req, task_id, entity_device,
                   stale, sync, climate>>

\* GET /task answers 200 with status "completed":
\* return await self.get_location_data(force=True)
PollCompleted(t) ==
    /\ pc[t] = "poll_wait"
    /\ pc' = [pc EXCEPT ![t] = "lock"]
    /\ force' = [force EXCEPT ![t] = TRUE]
    /\ n' = [n EXCEPT ![t].refresh = @ + 1, ![t].fetch = 0, ![t].auth = 0]
    /\ ev' = [ev EXCEPT ![t] = "completed"]
    /\ waited' = [waited EXCEPT ![t] = Waits]
    /\ UNCHANGED <<authorization, locations, since_update, loaded, temp_lock,
                   active, auth_update_listeners, told, op, arg, result, out, elapsed_time, slept, got,
                   prev, sinceCall, within,
                  req, task_id, entity_device,
                   stale, sync, climate>>

\* GET /task answers 200 with another status: sleep, then loop
PollPending(t) ==
    /\ pc[t] = "poll_wait"
    /\ Sleep(t)
    /\ ev' = [ev EXCEPT ![t] = "pending"]
    /\ UNCHANGED <<authorization, locations, since_update, loaded, temp_lock,
                   active, auth_update_listeners, told, waited, op, force, arg, elapsed_time, n, got, prev,
                   sinceCall, within,
                  req, task_id, entity_device,
                   stale, sync, climate>>

\* variant of the bad status that sleeps and polls again
PollBadRetries(t) ==
    /\ pc[t] = "poll_wait"
    /\ Sleep(t)
    /\ ev' = [ev EXCEPT ![t] = "poll_bad"]
    /\ UNCHANGED <<authorization, locations, since_update, loaded, temp_lock,
                   active, auth_update_listeners, told, waited, op, force, arg, elapsed_time, n, got, prev,
                   sinceCall, within,
                  req, task_id, entity_device,
                   stale, sync, climate>>

\* GET /task answers a status other than 200
PollBad(t) ==
    /\ pc[t] = "poll_wait"
    /\ Finish(t, "False", << >>)
    /\ ev' = [ev EXCEPT ![t] = "poll_bad"]
    /\ UNCHANGED <<authorization, locations, since_update, loaded, temp_lock,
                   active, auth_update_listeners, told, waited, op, force, arg, elapsed_time, n, got, prev,
                   sinceCall, within,
                  req, task_id, entity_device,
                   stale, sync, climate>>

\* GET /task fails with a ClientError or a TimeoutError: caught, sleep, loop
PollExc(t) ==
    /\ pc[t] = "poll_wait"
    /\ Sleep(t)
    /\ n' = [n EXCEPT ![t].raised = @ + 1]
    /\ ev' = [ev EXCEPT ![t] = "poll_raise"]
    /\ UNCHANGED <<authorization, locations, since_update, loaded, temp_lock,
                   active, auth_update_listeners, told, waited, op, force, arg, elapsed_time, got, prev, sinceCall,
                   within,
                  req, task_id, entity_device,
                   stale, sync, climate>>

\* the sleep is over and the budget is not spent: the next GET /task
WakePoll(t) ==
    /\ pc[t] = "sleep" /\ slept[t] >= DELAY
    /\ ~BudgetSpent(t)
    /\ pc' = [pc EXCEPT ![t] = "poll_wait"]
    /\ n' = [n EXCEPT ![t].poll = @ + 1]
    /\ req' = [req EXCEPT ![t] = Request("task", task_id[t], authorization)]
    /\ UNCHANGED <<authorization, locations, since_update, loaded, temp_lock,
                   active, auth_update_listeners, told, waited, op, force, arg, result, out, elapsed_time, slept,
                   ev, got, prev, sinceCall, within,
                  task_id, entity_device,
                   stale, sync, climate>>

\* the sleep is over and the budget is spent: timeout, return False
WakeTimeout(t) ==
    /\ pc[t] = "sleep" /\ slept[t] >= DELAY
    /\ BudgetSpent(t)
    /\ Finish(t, "False", << >>)
    /\ ev' = [ev EXCEPT ![t] = "timeout"]
    /\ UNCHANGED <<authorization, locations, since_update, loaded, temp_lock,
                   active, auth_update_listeners, told, waited, op, force, arg, elapsed_time, n, got, prev,
                   sinceCall, within,
                  req, task_id, entity_device,
                   stale, sync, climate>>

----------------------------------------------------------------------------
(* TionBreezerHeaterSwitch: set-up, async_turn_on and async_turn_off *)

\* bool(v) of a JSON value
Truthy(v) == v \notin {Null, "false"}

\* TionSwitch.available
Available(dev) == Truthy(dev.is_online) /\ Valid(dev)

\* the texts int() reads a number from
Numerals == {"20", "2"}

\* what int(v) raises: TypeError for None, ValueError for a text that is
\* not a number, nothing for a number
IntRaises(v) ==
    CASE v = Null -> "TypeError"
      [] v \in Numerals -> "none"
      [] OTHER -> "ValueError"

\* the device at place k of zone j of location i is the one get_device
\* finds for the guid g
IsFound(ls, i, j, k, g) ==
    /\ ls[i].zones[j].devices[k].guid = g
    /\ \A i2 \in 1..i : \A j2 \in 1..Len(ls[i2].zones) :
           \A k2 \in 1..Len(ls[i2].zones[j2].devices) :
               (i2 < i \/ (i2 = i /\ (j2 < j \/ (j2 = j /\ k2 < k))))
                   => ls[i2].zones[j2].devices[k2].guid # g

\* the snapshot after a write to the object get_device finds for the guid g
PutDevice(ls, g, dev) ==
    [i \in 1..Len(ls) |->
        [ls[i] EXCEPT !.zones =
            [j \in 1..Len(ls[i].zones) |->
                [ls[i].zones[j] EXCEPT !.devices =
                    [k \in 1..Len(ls[i].zones[j].devices) |->
                        IF IsFound(ls, i, j, k, g)
                        THEN dev
                        ELSE ls[i].zones[j].devices[k]]]]]]

\* async_setup_entry of the switch platform: the heater switch is built
\* around the device object get_devices returned
AddEntity(t) ==
    /\ pc[t] = "done" /\ op[t] = "get_devices"
    /\ entity_device = NoEntity
    /\ FirstWithGuid(out[t], EntityGuid) # << >>
    /\ entity_device' = [device |-> FirstWithGuid(out[t], EntityGuid),
                         cached |-> TRUE]
    /\ UNCHANGED <<authorization, auth_update_listeners, locations,
                   since_update, loaded, temp_lock, active, pc, op, force,
                   arg, result, out, elapsed_time, slept, n, ev, got, told,
                   waited, prev, sinceCall, within, req, task_id,
                   stale, sync, climate>>

\* _send returns or raises before any command is posted
EntityEnds(t, r, e) ==
    /\ pc' = pc
    /\ op' = [op EXCEPT ![t] = "heater_switch"]
    /\ result' = [result EXCEPT ![t] = r]
    /\ ev' = [ev EXCEPT ![t] = e]
    /\ UNCHANGED <<locations, out, n, req,
                   stale, sync, climate>>

\* async_turn_on (on) and async_turn_off (~on) of the heater switch, once
\* get_device of _load has returned: _load keeps the device it was given,
\* _is_on is set, and _send checks available, converts t_set and speed,
\* writes heater_enabled into the device object and calls send_breezer,
\* whose _send posts the command
HeaterSend(t, on) ==
    /\ pc[t] = "done" /\ op[t] = "get_device"
    /\ result[t] \in {"device", "None"}
    /\ ~force[t]
    /\ entity_device # NoEntity
    /\ arg[t] = entity_device.device[1].guid
    /\ LET fresh == out[t] # << >>
           held == IF fresh THEN out[t] ELSE entity_device.device
           cached == fresh \/ entity_device.cached
           dev == held[1]
           written == [dev EXCEPT !.data.heater_enabled =
                                     IF on THEN "true" ELSE "false"]
       IN  IF ~Available(dev)
           THEN /\ EntityEnds(t, "None", "unavailable")
                /\ entity_device' = [device |-> held, cached |-> cached]
           ELSE IF IntRaises(dev.data.t_set) # "none"
           THEN /\ EntityEnds(t, IF IntRaises(dev.data.t_set) = "ValueError"
                                  THEN "None" ELSE "raised", "t_set")
                /\ entity_device' = [device |-> held, cached |-> cached]
           ELSE IF IntRaises(dev.data.speed) # "none"
           THEN /\ EntityEnds(t, IF IntRaises(dev.data.speed) = "ValueError"
                                  THEN "None" ELSE "raised", "speed")
                /\ entity_device' = [device |-> held, cached |-> cached]
           ELSE /\ entity_device' = [device |-> <<written>>, cached |-> cached]
                /\ locations' = IF cached
                                 THEN PutDevice(locations, dev.guid, written)
                                 ELSE locations
                /\ pc' = [pc EXCEPT ![t] = "post_wait"]
                /\ op' = [op EXCEPT ![t] = "send_breezer"]
                /\ result' = [result EXCEPT ![t] = "pending"]
                /\ out' = [out EXCEPT ![t] = << >>]
                /\ n' = [n EXCEPT ![t] = [ZeroCount EXCEPT !.post = 1]]
                /\ ev' = [ev EXCEPT ![t] = "call"]
                /\ req' = [req EXCEPT ![t] =
                              Request("command", "none", authorization)]
    /\ UNCHANGED <<authorization, auth_update_listeners, since_update, loaded,
                   temp_lock, active, force, arg, elapsed_time, slept, got,
                   told, waited, prev, sinceCall, within, task_id,
                   stale, sync, climate>>

----------------------------------------------------------------------------
(* The legacy synchronous client: TionClient.wait_for_task (tion_api.py) *)

\* DELAY = 0.5 s, in tenths of a second
SyncDelay == 5
\* the max_time arguments, in tenths of a second (the default is 5 s)
SyncMaxTimes == {0, 5, 7, 10, 20, 50}

\* int(max_time / DELAY)
PollLimit(mt) == mt \div SyncDelay

\* wait_for_task(task_id, max_time): the loop issues its first GET /task;
\* when range(int(max_time / DELAY)) is empty the warning after the loop
\* reads response, which was never assigned (UnboundLocalError)
SyncWaitForTask(mt) ==
    /\ sync.pc = "idle"
    /\ sync' = IF PollLimit(mt) = 0
               THEN [NoSync EXCEPT !.pc = "done", !.max_time = mt,
                                   !.ev = "no_poll", !.result = "raised"]
               ELSE [NoSync EXCEPT !.pc = "poll", !.max_time = mt, !.polls = 1]
    /\ UNCHANGED <<clientVars, climate>>

\* the poll answers 200 with status "completed": get_location_data(force=True)
SyncPollCompleted ==
    /\ sync.pc = "poll"
    /\ sync' = [sync EXCEPT !.pc = "refresh", !.refreshes = @ + 1,
                            !.ev = "completed"]
    /\ UNCHANGED <<clientVars, climate>>

\* the forced refresh returns (its value is not looked at): return True
SyncRefreshReturns ==
    /\ sync.pc = "refresh"
    /\ sync' = [sync EXCEPT !.pc = "done", !.result = "True"]
    /\ UNCHANGED <<clientVars, climate>>

\* the forced refresh raises: GET /location answered with a status other
\* than 200 and 401 and a body that is not JSON, which the error log parses
\* outside the try
SyncRefreshRaises ==
    /\ sync.pc = "refresh"
    /\ sync' = [sync EXCEPT !.pc = "done", !.result = "raised",
                            !.ev = "refresh_raise"]
    /\ UNCHANGED <<clientVars, climate>>

\* the poll answers 200 with another status: sleep(DELAY), then the next
\* poll of the range, or the warning and return False after the last
SyncPollPending ==
    /\ sync.pc = "poll"
    /\ sync' = IF sync.polls < PollLimit(sync.max_time)
               THEN [sync EXCEPT !.polls = @ + 1, !.ev = "pending"]
               ELSE [sync EXCEPT !.pc = "done", !.result = "False",
                                 !.ev = "pending"]
    /\ UNCHANGED <<clientVars, climate>>

\* the poll answers 200 with a body that is not JSON or has no status
SyncPollGarbled ==
    /\ sync.pc = "poll"
    /\ sync' = [sync EXCEPT !.pc = "done", !.result = "raised",
                            !.ev = "garbled"]
    /\ UNCHANGED <<clientVars, climate>>

\* the poll answers another status: warning, return False
SyncPollBad ==
    /\ sync.pc = "poll"
    /\ sync' = [sync EXCEPT !.pc = "done", !.result = "False", !.ev = "bad"]
    /\ UNCHANGED <<clientVars, climate>>

\* requests.get raises a RequestException: error, return False
SyncPollExc ==
    /\ sync.pc = "poll"
    /\ sync' = [sync EXCEPT !.pc = "done", !.result = "False", !.ev = "exc"]
    /\ UNCHANGED <<clientVars, climate>>

\* the caller has the result
SyncReturn ==
    /\ sync.pc = "done"
    /\ sync' = NoSync
    /\ UNCHANGED <<clientVars, climate>>

NextSync ==
    \/ \E mt \in SyncMaxTimes : SyncWaitForTask(mt)
    \/ SyncPollCompleted
    \/ SyncRefreshReturns
    \/ SyncRefreshRaises
    \/ SyncPollPending
    \/ SyncPollGarbled
    \/ SyncPollBad
    \/ SyncPollExc
    \/ SyncReturn

SpecSync == Init /\ [][NextSync]_vars

----------------------------------------------------------------------------
(* TionClimate: the swing modes, the fan modes and the commands they send *)

\* TionDeviceType of the breezers async_setup_entry makes an entity for
BREEZER_3S == "breezer3"
BREEZER_4S == "breezer4"
ClimateTypes == {BREEZER_3S, BREEZER_4S}
\* SwingMode and ZoneMode
SwingModes == {"inside", "outside", "mixed"}
ZoneModes == {"manual", "auto"}
STATE_UNKNOWN == "unknown"
\* the gate positions a device reports: JSON numbers as text, or null
Gates == {"0", "1", "2", Null}
\* the speeds a device reports (a number, null or a text that is no
\* number), and the floats the speed setter stores
Speeds == {"1", "2", Null, "high"}
Floats == {"1.0", "2.0"}
\* max_speed of the breezer as the cloud reports it
MaxSpeed == 2
FAN_AUTO == "auto"
\* the fan modes the host may ask for; "7" is above max_speed
FanModeArgs == {FAN_AUTO, "1", "2", "7"}

\* variant of the gate mapping that takes every breezer for a Breezer 3S
NewGateOf3S(type, s) ==
    CASE s = "outside" -> "2"
      [] s = "inside" -> "0"
      [] s = "mixed" -> "1"

\* the entity's state when no operation runs: no command issued, nothing
\* kept from the call
Rest(c) == [c EXCEPT !.pc = "idle", !.op = "none", !.arg = "none",
                     !.cmds = << >>, !.end = "none", !.new_speed = 0,
                     !.before = << >>]

\* int(v) of a number
IntOf(v) ==
    CASE v \in {"1", "1.0"} -> 1
      [] v \in {"2", "2.0"} -> 2

\* str(k) of an int
StrOf(k) == IF k = 1 THEN "1" ELSE "2"

\* float(k) of an int
FloatOf(k) == IF k = 1 THEN "1.0" ELSE "2.0"

\* what int(self._speed) raises
SpeedRaises(v) ==
    CASE v = Null -> "TypeError"
      [] v \in {"1", "2"} \cup Floats -> "none"
      [] OTHER -> "ValueError"

\* TionClimate._fan_modes: auto, then the speeds up to max_speed
FanModes == <<FAN_AUTO>> \o [k \in 1..MaxSpeed |-> StrOf(k)]

\* whether x is an element of the list q
InList(x, q) == \E i \in 1..Len(q) : q[i] = x

\* TionClimate._set_swing_modes
SetSwingModes(type, mode) ==
    <<"outside">>
        \o (IF mode = "manual" THEN <<"inside">> ELSE << >>)
        \o (IF mode = "manual" /\ type = BREEZER_3S THEN <<"mixed">>
            ELSE << >>)

\* TionClimate.swing_mode
SwingModeOf(type, gate) ==
    IF type = BREEZER_4S
        THEN CASE gate = "0" -> "outside"
               [] gate = "1" -> "inside"
               [] OTHER -> STATE_UNKNOWN
        ELSE CASE gate = "0" -> "inside"
               [] gate = "1" -> "mixed"
               [] gate = "2" -> "outside"
               [] OTHER -> STATE_UNKNOWN

\* new_gate of async_set_swing_mode: the gate position of a swing mode
NewGate(type, s) ==
    CASE s = "outside" -> IF type = BREEZER_4S THEN "0" ELSE "2"
      [] s = "inside" -> IF type = BREEZER_4S THEN "1" ELSE "0"
      [] s = "mixed" -> IF type = BREEZER_3S THEN "1" ELSE Null

\* what the properties of the entity read, kept when an operation starts
Fields(c) == <<c.type, c.mode, c.zone_valid, c.breezer_valid, c.gate,
               c.speed, c.swing_modes>>

\* the operation ends: it returned or an exception left it
Ended(c, how) == [c EXCEPT !.pc = "done", !.end = how]

\* TionClimate._send_breezer from the state c: nothing is sent for a
\* breezer that is not valid; the debug message reads the speed property
\* before the command is issued
SendBreezer(c) ==
    IF ~c.breezer_valid THEN Ended(c, "returned")
    ELSE IF SpeedRaises(c.speed) = "TypeError" THEN Ended(c, "raised")
    ELSE [c EXCEPT !.pc = "breezer_wait",
                   !.cmds = Append(c.cmds, "send_breezer")]

\* the second half of async_set_fan_mode, lines 472-479
SetSpeed(c) ==
    LET manual == c.arg # FAN_AUTO
    IN  IF ~manual THEN Ended(c, "returned")
        ELSE IF SpeedRaises(c.speed) = "TypeError" THEN Ended(c, "raised")
        ELSE IF SpeedRaises(c.speed) = "none" /\ IntOf(c.speed) = c.new_speed
            THEN Ended(c, "returned")
        ELSE SendBreezer([c EXCEPT !.speed = FloatOf(c.new_speed)])

\* TionClimate.__init__ and async_added_to_hass for a breezer of the
\* snapshot; zone is the mode and validity of the zone get_device_zone
\* found, or << >> when it found none
ClimateSetup(type, gate, speed, valid, zone) ==
    /\ climate.pc = "none"
    /\ LET mode == IF zone = << >> THEN Null ELSE zone[1]
       IN  climate' = [NoClimate EXCEPT
               !.pc = "idle", !.type = type, !.gate = gate, !.speed = speed,
               !.breezer_valid = valid, !.mode = mode,
               !.zone_valid = IF zone = << >> THEN FALSE ELSE zone[2],
               !.swing_modes = SetSwingModes(type, mode)]
    /\ UNCHANGED <<clientVars, sync>>

\* TionClimate.async_update: _load_zone, then _load_breezer; zone as in
\* ClimateSetup, dev the gate, speed and data_valid of the device
\* get_device found, or << >>
AsyncUpdate(zone, dev) ==
    /\ climate.pc = "idle"
    /\ LET mode == IF zone = << >> THEN climate.mode ELSE zone[1]
       IN  climate' = [climate EXCEPT
               !.mode = mode,
               !.zone_valid = IF zone = << >> THEN @ ELSE zone[2],
               !.swing_modes = IF mode # climate.mode
                                   THEN SetSwingModes(climate.type, mode)
                                   ELSE @,
               !.gate = IF dev = << >> THEN @ ELSE dev[1],
               !.speed = IF dev = << >> THEN @ ELSE dev[2],
               !.breezer_valid = IF dev = << >> THEN @ ELSE dev[3]]
    /\ UNCHANGED <<clientVars, sync>>

\* TionClimate.async_set_swing_mode up to its first suspension
AsyncSetSwingMode(s) ==
    /\ climate.pc = "idle"
    /\ LET c == [climate EXCEPT !.op = "set_swing_mode", !.arg = s,
                                !.before = Fields(climate)]
           new_gate == NewGate(c.type, s)
       IN  climate' =
               IF ~InList(s, c.swing_modes) THEN Ended(c, "returned")
               ELSE IF new_gate # Null /\ c.gate # new_gate
                   THEN SendBreezer([c EXCEPT !.gate = new_gate])
               ELSE Ended(c, "returned")
    /\ UNCHANGED <<clientVars, sync>>

\* TionClimate.async_set_fan_mode up to its first suspension
AsyncSetFanMode(f) ==
    /\ climate.pc = "idle"
    /\ LET c == [climate EXCEPT !.op = "set_fan_mode", !.arg = f,
                                !.before = Fields(climate)]
           new_mode == IF f = FAN_AUTO THEN "auto" ELSE "manual"
           d == [c EXCEPT !.new_speed = IF f = FAN_AUTO THEN 0 ELSE IntOf(f)]
           e == [d EXCEPT !.mode = new_mode,
                          !.swing_modes = SetSwingModes(d.type, new_mode)]
       IN  climate' =
               IF ~InList(f, FanModes) THEN Ended(c, "returned")
               ELSE IF c.mode = new_mode THEN SetSpeed(d)
               ELSE IF ~e.zone_valid THEN SetSpeed(e)
               ELSE [e EXCEPT !.pc = "zone_wait",
                              !.cmds = Append(e.cmds, "send_zone")]
    /\ UNCHANGED <<clientVars, sync>>

\* send_zone returned its boolean, which the entity does not read, and
\* async_set_fan_mode goes on
ZoneReturned ==
    /\ climate.pc = "zone_wait"
    /\ climate' = SetSpeed([climate EXCEPT
                      !.cmds = Append(climate.cmds, "zone_returned")])
    /\ UNCHANGED <<clientVars, sync>>

\* send_zone raised (a transport error leaves the client) and the
\* operation ends with the exception
ZoneRaised ==
    /\ climate.pc = "zone_wait"
    /\ climate' = Ended(climate, "raised")
    /\ UNCHANGED <<clientVars, sync>>

\* send_breezer returned its boolean and the operation returns
BreezerReturned ==
    /\ climate.pc = "breezer_wait"
    /\ climate' = Ended([climate EXCEPT
                      !.cmds = Append(climate.cmds, "breezer_returned")],
                      "returned")
    /\ UNCHANGED <<clientVars, sync>>

\* send_breezer raised and the operation ends with the exception
BreezerRaised ==
    /\ climate.pc = "breezer_wait"
    /\ climate' = Ended(climate, "raised")
    /\ UNCHANGED <<clientVars, sync>>

\* the host has the outcome of the operation
ClimateReturn ==
    /\ climate.pc = "done"
    /\ climate' = Rest(climate)
    /\ UNCHANGED <<clientVars, sync>>

\* what get_device_zone and get_device may hand to the entity
ZoneAnswers == {<< >>} \cup {<<m, v>> : m \in ZoneModes, v \in BOOLEAN}
DeviceAnswers ==
    {<< >>} \cup {<<g, s, v>> : g \in Gates, s \in Speeds, v \in BOOLEAN}

NextClimate ==
    \/ \E type \in ClimateTypes, g \in Gates, s \in Speeds, v \in BOOLEAN,
          z \in ZoneAnswers : ClimateSetup(type, g, s, v, z)
    \/ \E z \in ZoneAnswers, d \in DeviceAnswers : AsyncUpdate(z, d)
    \/ \E s \in SwingModes : AsyncSetSwingMode(s)
    \/ \E f \in FanModeArgs : AsyncSetFanMode(f)
    \/ ZoneReturned
    \/ ZoneRaised
    \/ BreezerReturned
    \/ BreezerRaised
    \/ ClimateReturn

SpecClimate == Init /\ [][NextClimate]_vars

----------------------------------------------------------------------------
(* The clock *)

InWaitForTask(t) ==
    op[t] \in SendOps /\ pc[t] \in {"poll_wait", "sleep", "lock", "get_wait", "auth_wait"}

\* the lock is free and a call has reached it: taking a free lock does not
\* suspend the caller, and a waiting caller is resumed by the release
LockHandOver == \E t \in Tasks : pc[t] = "lock" /\ temp_lock = Free

\* half a second passes
Tick ==
    /\ ~LockHandOver
    /\ since_update' = Min(since_update + 1, MinUpdateInterval)
    /\ elapsed_time' = [t \in Tasks |->
            IF InWaitForTask(t) THEN Min(elapsed_time[t] + 1, max_time)
            ELSE elapsed_time[t]]
    /\ slept' = [t \in Tasks |->
            IF pc[t] = "sleep" THEN Min(slept[t] + 1, DELAY) ELSE slept[t]]
    /\ sinceCall' = [t \in Tasks |-> Min(sinceCall[t] + 1, MinUpdateInterval)]
    /\ UNCHANGED <<authorization, locations, loaded, temp_lock, active, auth_update_listeners, told, waited, pc,
                   op, force, arg, result, out, n, ev, got, prev, within,
                  req, task_id, entity_device,
                   stale, sync, climate>>

Next ==
    \/ \E t \in Tasks, o \in Lookups, f \in BOOLEAN :
          \E g \in GuidArgs(o) : CallLookup(t, o, f, g)
    \/ \E t \in Tasks, o \in SendOps : CallSend(t, o)
    \/ \E t \in Tasks : CallAuthorization(t)
    \/ \E t \in Tasks : Return(t)
    \/ \E t \in Tasks : Debounced(t)
    \/ \E t \in Tasks : Fetch(t)
    \/ \E t \in Tasks, p \in Payloads : LocOK(t, p)
    \/ \E t \in Tasks : Loc401(t)
    \/ \E t \in Tasks, json \in BOOLEAN : LocOther(t, json)
    \/ \E t \in Tasks : LocExc(t)
    \/ \E t \in Tasks, r \in Tokens, k \in 0..MaxListeners : AuthOK(t, r, k)
    \/ \E t \in Tasks, json \in BOOLEAN : AuthFail(t, json)
    \/ \E t \in Tasks : AuthExc(t)
    \/ \E t \in Tasks, id \in TaskIds : SubmitQueued(t, id)
    \/ \E t \in Tasks : SubmitRejected(t)
    \/ \E t \in Tasks : SubmitExc(t)
    \/ \E t \in Tasks : PollCompleted(t)
    \/ \E t \in Tasks : PollPending(t)
    \/ \E t \in Tasks : PollBad(t)
    \/ \E t \in Tasks : PollExc(t)
    \/ \E t \in Tasks : WakePoll(t)
    \/ \E t \in Tasks : WakeTimeout(t)
    \/ Tick

Spec == Init /\ [][Next]_vars

\* The authenticator and its listeners: the host registers listeners,
\* awaits the authorization property and refreshes the cache.
NextAuth ==
    \/ \E l \in Listeners : AddUpdateListener(l)
    \/ \E t \in Tasks : CallAuthorization(t)
    \/ \E t \in Tasks, f \in BOOLEAN :
          CallLookup(t, "get_location_data", f, "none")
    \/ \E t \in Tasks : Return(t)
    \/ \E t \in Tasks : Debounced(t)
    \/ \E t \in Tasks : Fetch(t)
    \/ \E t \in Tasks, p \in Payloads : LocOK(t, p)
    \/ \E t \in Tasks : Loc401(t)
    \/ \E t \in Tasks, json \in BOOLEAN : LocOther(t, json)
    \/ \E t \in Tasks : LocExc(t)
    \/ \E t \in Tasks, r \in Tokens, k \in 0..MaxListeners : AuthOK(t, r, k)
    \/ \E t \in Tasks, json \in BOOLEAN : AuthFail(t, json)
    \/ \E t \in Tasks : AuthExc(t)
    \/ Tick

SpecAuth == Init /\ [][NextAuth]_vars

\* The lookups over trees of every shape: the host refreshes and looks
\* devices and zones up while the server answers with the bodies of
\* ScanPayloads.
NextScan ==
    \/ \E t \in Tasks, o \in Lookups, f \in BOOLEAN :
          \E g \in ScanGuidArgs(o) : CallLookup(t, o, f, g)
    \/ \E t \in Tasks : Return(t)
    \/ \E t \in Tasks : Debounced(t)
    \/ \E t \in Tasks : Fetch(t)
    \/ \E t \in Tasks, p \in ScanPayloads : LocOK(t, p)
    \/ \E t \in Tasks, json \in BOOLEAN : LocOther(t, json)
    \/ Tick

SpecScan == Init /\ [][NextScan]_vars

\* The heater switch of one breezer: the platform is set up from
\* get_devices, the host turns the switch on and off, and the server
\* answers with the bodies of EntityPayloads.
NextEntity ==
    \/ \E t \in Tasks : CallLookup(t, "get_devices", FALSE, "none")
    \/ \E t \in Tasks : AddEntity(t)
    \/ \E t \in Tasks : CallLookup(t, "get_device", FALSE, EntityGuid)
    \/ \E t \in Tasks, on \in BOOLEAN : HeaterSend(t, on)
    \/ \E t \in Tasks : Return(t)
    \/ \E t \in Tasks : Debounced(t)
    \/ \E t \in Tasks : Fetch(t)
    \/ \E t \in Tasks, p \in EntityPayloads : LocOK(t, p)
    \/ \E t \in Tasks, json \in BOOLEAN : LocOther(t, json)
    \/ \E t \in Tasks, id \in TaskIds : SubmitQueued(t, id)
    \/ \E t \in Tasks : SubmitRejected(t)
    \/ \E t \in Tasks : PollCompleted(t)
    \/ \E t \in Tasks : PollPending(t)
    \/ \E t \in Tasks : PollBad(t)
    \/ \E t \in Tasks : WakePoll(t)
    \/ \E t \in Tasks : WakeTimeout(t)
    \/ Tick

SpecEntity == Init /\ [][NextEntity]_vars

\* Two host tasks calling the client concurrently (entities of one config
\* entry share the client): refreshes, lookups and the authorization
\* property in any interleaving.  The tasks look one device up, with and
\* without force, and the server answers with one of two payloads.
ConcLookups == {"get_device"}
ConcGuids == {"d1"}
ConcPayloads == {PayloadA, PayloadB}

InitConc ==
    /\ authorization \in {NoAuth, StoredAuth}
    /\ auth_update_listeners = << >>
    /\ locations = << >>
    /\ since_update = MinUpdateInterval
    /\ loaded = FALSE
    /\ temp_lock = Free
    /\ active = Tasks
    /\ pc = [t \in Tasks |-> "idle"]
    /\ op = [t \in Tasks |-> "none"]
    /\ force = [t \in Tasks |-> FALSE]
    /\ arg = [t \in Tasks |-> "none"]
    /\ result = [t \in Tasks |-> "none"]
    /\ out = [t \in Tasks |-> << >>]
    /\ elapsed_time = [t \in Tasks |-> 0]
    /\ slept = [t \in Tasks |-> 0]
    /\ n = [t \in Tasks |-> ZeroCount]
    /\ ev = [t \in Tasks |-> "none"]
    /\ got = [t \in Tasks |-> << >>]
    /\ told = [t \in Tasks |-> << >>]
    /\ waited = [t \in Tasks |-> "no"]
    /\ prev = [t \in Tasks |-> NoPrev]
    /\ sinceCall = [t \in Tasks |-> MinUpdateInterval]
    /\ within = [t \in Tasks |-> FALSE]
    /\ req = [t \in Tasks |-> NoRequest]
    /\ task_id = [t \in Tasks |-> "none"]
    /\ entity_device = NoEntity
    /\ stale = [t \in Tasks |-> "no"]
    /\ sync = NoSync
    /\ climate = NoClimate

NextConc ==
    \/ \E t \in Tasks, o \in ConcLookups, f \in BOOLEAN :
          \E g \in ConcGuids : CallLookup(t, o, f, g)
    \/ \E t \in Tasks : CallAuthorization(t)
    \/ \E t \in Tasks : Return(t)
    \/ \E t \in Tasks : Debounced(t)
    \/ \E t \in Tasks : Fetch(t)
    \/ \E t \in Tasks, p \in ConcPayloads : LocOK(t, p)
    \/ \E t \in Tasks : Loc401(t)
    \/ \E t \in Tasks, json \in BOOLEAN : LocOther(t, json)
    \/ \E t \in Tasks : LocExc(t)
    \/ \E t \in Tasks, r \in Tokens, k \in 0..MaxListeners : AuthOK(t, r, k)
    \/ \E t \in Tasks, json \in BOOLEAN : AuthFail(t, json)
    \/ \E t \in Tasks : AuthExc(t)
    \/ Tick

SpecConc == InitConc /\ [][NextConc]_vars

\* Two host tasks, one that refreshes and one that sends commands: the lock
\* is taken by the get_location_data calls of the first and by the refresh
\* _wait_for_task makes after a completed poll of the second.  One payload,
\* one token, one task id.
LockCaller == 1
LockSender == 2
LockPayloads == {PayloadA}
LockTokens == {[token_type |-> "bearer", access_token |-> "a1"]}
LockTaskIds == {"T1"}

NextLock ==
    \/ CallLookup(LockCaller, "get_location_data", FALSE, "none")
    \/ CallSend(LockSender, "send_zone")
    \/ \E t \in Tasks : Return(t)
    \/ \E t \in Tasks : Debounced(t)
    \/ \E t \in Tasks : Fetch(t)
    \/ \E t \in Tasks, p \in LockPayloads : LocOK(t, p)
    \/ \E t \in Tasks : Loc401(t)
    \/ \E t \in Tasks, json \in BOOLEAN : LocOther(t, json)
    \/ \E t \in Tasks : LocExc(t)
    \/ \E t \in Tasks, r \in LockTokens : AuthOK(t, r, 0)
    \/ \E t \in Tasks, json \in BOOLEAN : AuthFail(t, json)
    \/ \E t \in Tasks : AuthExc(t)
    \/ \E t \in Tasks, id \in LockTaskIds : SubmitQueued(t, id)
    \/ \E t \in Tasks : PollCompleted(t)
    \/ \E t \in Tasks : WakePoll(t)
    \/ \E t \in Tasks : WakeTimeout(t)
    \/ Tick

\* the request of a refresh of task t is answered or fails
Answer(t) ==
    \/ \E p \in LockPayloads : LocOK(t, p)
    \/ Loc401(t)
    \/ \E json \in BOOLEAN : LocOther(t, json)
    \/ LocExc(t)
    \/ \E r \in LockTokens : AuthOK(t, r, 0)
    \/ \E json \in BOOLEAN : AuthFail(t, json)
    \/ AuthExc(t)

\* every outstanding request of a refresh returns or raises, and
\* asyncio.Lock wakes its waiters in the order they came: a caller that
\* finds the lock free again and again takes it
FairLock ==
    \A t \in Tasks :
        /\ WF_vars(Answer(t))
        /\ SF_vars(Fetch(t) \/ Debounced(t))

SpecLock == InitConc /\ [][NextLock]_vars /\ FairLock

----------------------------------------------------------------------------
(* Properties *)

Done(t) == pc[t] = "done"

\* the call of a send_* ended with the return of the refresh that followed
\* a poll answered "completed"
EndedByRefresh(t) ==
    Done(t) /\ op[t] \in SendOps /\ ev[t] \in {"loc_200", "loc_other", "auth_fail"}

\* C1: one refresh issues at most one token request and at most two
\* GET /location, whatever the server answers (a 401 on the retried fetch
\* included).
C1_SingleRetry ==
    \A t \in Tasks : n[t].auth <= 1 /\ n[t].fetch <= 2

\* C2: get_location_data(force=False), reaching the debounce test less than
\* min_update_interval after the last successful fetch, returns at once
\* without issuing any request, and returns true iff a snapshot exists.
C2_DebouncedRead ==
    [][\A t \in Tasks :
          (/\ pc[t] = "lock" /\ pc'[t] # "lock"
           /\ ~force[t] /\ since_update < MinUpdateInterval)
          => (/\ pc'[t] = "done"
              /\ n'[t] = n[t]
              /\ temp_lock' = Free
              /\ (op[t] = "get_location_data" => result'[t] = Bool(loaded)))]_vars

C2_Witness ==
    \E t \in Tasks :
        /\ Done(t) /\ op[t] = "get_location_data" /\ ~force[t]
        /\ ev[t] = "skip" /\ n[t].fetch = 0 /\ result[t] = "True" /\ loaded

\* the refresh of the call returned (true or false) instead of raising
Returned(e) == e \in {"skip", "loc_200", "loc_other", "auth_fail"}

\* C3 as stated: two consecutive get_devices() without force, the second
\* made less than min_update_interval after the first, both returning a
\* list, issue at most one GET /location in total and return identical
\* lists.
C3_AtMostOneFetch ==
    \A t \in Tasks :
        (/\ Done(t) /\ op[t] = "get_devices" /\ ~force[t] /\ Returned(ev[t])
         /\ prev[t].op = "get_devices" /\ Returned(prev[t].ev) /\ within[t])
        => (prev[t].fetch + n[t].fetch <= 1 /\ out[t] = prev[t].out)

\* C3 amended: when the refresh of the first get_devices() succeeded without
\* re-authentication (debounced, or 200 on its first fetch), no other call
\* comes between the two, and the second get_devices() without force
\* reaches the debounce test less than min_update_interval after the last
\* successful fetch, the second call issues no request, the two calls issue
\* at most one GET /location in total, and the second list is identical to
\* the first.
C3_CachedRepeat ==
    [][\A t \in Tasks :
          (/\ pc[t] = "lock" /\ pc'[t] # "lock"
           /\ op[t] = "get_devices" /\ ~force[t]
           /\ since_update < MinUpdateInterval
           /\ prev[t].op = "get_devices"
           /\ prev[t].ev \in {"skip", "loc_200"} /\ prev[t].fetch <= 1)
          => (/\ pc'[t] = "done"
              /\ n'[t].fetch = 0
              /\ prev[t].fetch + n'[t].fetch <= 1
              /\ result'[t] = "list"
              /\ out'[t] = prev[t].out)]_vars

C3_Witness ==
    \E t \in Tasks :
        /\ Done(t) /\ op[t] = "get_devices" /\ ~force[t] /\ ev[t] = "skip"
        /\ prev[t].op = "get_devices" /\ prev[t].ev = "loc_200"
        /\ prev[t].fetch = 1 /\ n[t].fetch = 0
        /\ out[t] = prev[t].out /\ out[t] # << >>

\* C4: get_location_data(force=True) issues a GET /location whenever it
\* gets to run, whatever time has passed since the last successful fetch.
C4_ForceFetches ==
    [][\A t \in Tasks :
          (pc[t] = "lock" /\ pc'[t] # "lock" /\ force[t])
          => (pc'[t] = "get_wait" /\ n'[t].fetch = n[t].fetch + 1)]_vars

\* a forced refresh fetching at the very instant of the last successful fetch
C4_Witness ==
    \E t \in Tasks :
        /\ op[t] = "get_location_data" /\ force[t] /\ pc[t] = "get_wait"
        /\ n[t].fetch = 1 /\ loaded /\ since_update = 0

\* C5: a send_* whose command was queued and whose polls answered 200
\* (not completed any number of times, then completed, within the budget)
\* returns true, having triggered exactly one forced refresh.
C5_CompletedIsTrue ==
    \A t \in Tasks :
        (/\ EndedByRefresh(t)
         /\ n[t].raised = 0 /\ elapsed_time[t] < max_time)
        => (result[t] = "True" /\ n[t].refresh = 1)

C7_RejectedEnds ==
    \A t \in Tasks :
        ev[t] = "rejected"
        => (/\ Done(t) /\ result[t] = "False"
            /\ n[t] = [ZeroCount EXCEPT !.post = 1])

C7_Witness ==
    \E t \in Tasks :
        /\ Done(t) /\ op[t] = "send_zone" /\ ev[t] = "rejected"
        /\ result[t] = "False" /\ n[t].post = 1 /\ n[t].poll = 0

\* the polls of the call so far were all answered 200 without "completed"
OnlyPending(t) ==
    /\ op[t] \in SendOps /\ n[t].poll >= 1
    /\ n[t].raised = 0 /\ n[t].refresh = 0 /\ ev[t] # "poll_bad"

\* C8: when every poll is answered 200 without "completed", the send_*
\* issues at most max_time / DELAY polls, returns false, not before the
\* budget has elapsed, and triggers no refresh.
C8_TimeoutIsFalse ==
    \A t \in Tasks :
        OnlyPending(t)
        => (/\ n[t].poll * DELAY <= max_time
            /\ n[t].fetch = 0
            /\ Done(t) => (/\ ev[t] = "timeout" /\ result[t] = "False"
                           /\ elapsed_time[t] >= max_time))

C8_Witness ==
    \E t \in Tasks :
        /\ Done(t) /\ OnlyPending(t) /\ ev[t] = "timeout"
        /\ result[t] = "False" /\ n[t].poll * DELAY = max_time

\* C9: a poll answered with a status other than 200 ends the send_* at
\* once with false: no further GET /task and no refresh follow it.
C9_BadStatusEnds ==
    [][\A t \in Tasks :
          (ev'[t] = "poll_bad" /\ (ev[t] # "poll_bad" \/ pc[t] # "done"))
          => (/\ pc[t] = "poll_wait" /\ pc'[t] = "done"
              /\ result'[t] = "False" /\ n'[t] = n[t])]_vars

C9_Witness ==
    \E t \in Tasks :
        /\ Done(t) /\ ev[t] = "poll_bad" /\ result[t] = "False"
        /\ n[t].poll >= 2 /\ n[t].refresh = 0

\* C10: a transport exception on a GET /task does not end the send_*: it
\* sleeps and polls again; when a later poll is answered "completed"
\* within the budget the send_* returns true, and a run of exceptions ends
\* only with the timeout (false).
C10_ExceptionsSwallowed ==
    \A t \in Tasks :
        /\ ev[t] = "poll_raise" => pc[t] \in {"sleep", "poll_wait"}
        /\ (Done(t) /\ op[t] \in SendOps /\ n[t].poll >= 1
                    /\ n[t].raised = n[t].poll)
           => (ev[t] = "timeout" /\ result[t] = "False")
        /\ (EndedByRefresh(t) /\ n[t].raised >= 1 /\ elapsed_time[t] < max_time)
           => result[t] = "True"

\* C11: a transport exception of the token POST, the location GET or the
\* command POST never reaches the caller of a public operation: the call
\* goes on or ends with false, None or a list.
C11_NoTransportEscape ==
    [][\A t \in Tasks :
          (LocExc(t) \/ AuthExc(t) \/ SubmitExc(t)) => result'[t] # "raised"]_vars

\* the refresh of the call in progress returned false to its caller
RefreshFalse(t) ==
    /\ pc'[t] = "done" /\ out'[t] = << >>
    /\ result'[t] = (CASE op[t] = "get_devices" -> "list"
                       [] op[t] \in {"get_device", "get_zone", "get_device_zone"} -> "None"
                       [] OTHER -> "False")

\* C12: when GET /location answers a status other than 200 and 401, or
\* fails with a transport error, the refresh returns false, and the
\* snapshot and the time of the last refresh stay as they were.
C12_FailedFetchFrame ==
    [][\A t \in Tasks :
          (\E json \in BOOLEAN : LocOther(t, json) \/ LocExc(t))
          => (/\ RefreshFalse(t)
              /\ locations' = locations
              /\ since_update' = since_update /\ loaded' = loaded)]_vars

\* the lookups that scan the snapshot
Scans == {"get_zone", "get_device", "get_device_zone", "get_devices"}

\* the refresh of the call returned false
RefreshFailed(e) == e \in {"loc_other", "auth_fail"}

\* C19: a lookup performs one refresh, with the force flag it was given,
\* before it scans anything, and when that refresh returns false it
\* returns None (an empty list for get_devices), whatever snapshot is held.
C19_FailedRefreshNothing ==
    \A t \in Tasks :
        op[t] \in Scans
        => (/\ n[t].refresh = 1
            /\ (force[t] /\ pc[t] \in {"get_wait", "auth_wait", "done"})
               => n[t].fetch >= 1
            /\ (Done(t) /\ RefreshFailed(ev[t]))
               => (/\ out[t] = << >>
                   /\ result[t] = IF op[t] = "get_devices" THEN "list" ELSE "None"))

\* get_zone("Z1") returning None while the snapshot held has zone Z1
C19_Witness ==
    \E t \in Tasks :
        /\ Done(t) /\ op[t] = "get_zone" /\ ev[t] = "loc_other"
        /\ result[t] = "None" /\ FindZone(locations, arg[t]) # << >>

\* C20: when its refresh succeeds, get_device_zone(guid) returns a zone of
\* the snapshot then held one of whose devices has the guid, and it
\* returns None exactly when no device of that snapshot has the guid.
C20_DeviceZone ==
    [][\A t \in Tasks :
          (/\ op[t] = "get_device_zone" /\ pc[t] # "done" /\ pc'[t] = "done"
           /\ ev'[t] \in {"skip", "loc_200"})
          => LET Held(z) == \E i \in 1..Len(locations') :
                                \E j \in 1..Len(locations'[i].zones) :
                                    locations'[i].zones[j] = z
                 Owns(z) == \E k \in 1..Len(z.devices) : z.devices[k].guid = arg[t]
                 Known == \E i \in 1..Len(locations') :
                              \E j \in 1..Len(locations'[i].zones) :
                                  Owns(locations'[i].zones[j])
             IN  /\ result'[t] \in {"zone", "None"}
                 /\ result'[t] = "None" <=> ~Known
                 /\ result'[t] = "None" => out'[t] = << >>
                 /\ result'[t] = "zone"
                    => (/\ Len(out'[t]) = 1
                        /\ Held(out'[t][1]) /\ Owns(out'[t][1]))]_vars

\* get_device_zone("d4") returning the zone of the second location
C20_Witness ==
    \E t \in Tasks :
        /\ Done(t) /\ op[t] = "get_device_zone" /\ arg[t] = "d4"
        /\ result[t] = "zone" /\ out[t][1].guid = "Z2"

\* a request of a refresh made through get_location_data is outstanding
InFlight(t) == pc[t] \in {"get_wait", "auth_wait"} /\ op[t] # "authorization"

\* C13: with concurrent callers, a refresh issues its requests only while
\* it holds the lock, so never while another refresh is in flight; a caller
\* without force that waited for a refresh which then succeeded returns
\* from the cache without any request of its own.
C13_SecondCallerWaits ==
    /\ \A t \in Tasks : InFlight(t) => temp_lock = t
    /\ \A t \in Tasks :
          (pc[t] = "lock" /\ temp_lock # Free /\ op[t] \notin SendOps)
          => (n[t].fetch = 0 /\ n[t].auth = 0)
    /\ \A t \in Tasks :
          (Done(t) /\ ~force[t] /\ waited[t] = "ok")
          => (/\ ev[t] = "skip" /\ n[t].fetch = 0 /\ n[t].auth = 0
              /\ result[t] \in {"device", "None"})

\* a get_device without force that waited for the fetch of the other task
\* and was served the device from the snapshot of that fetch
C13_Witness ==
    \E t \in Tasks :
        /\ Done(t) /\ op[t] = "get_device" /\ ~force[t] /\ waited[t] = "ok"
        /\ ev[t] = "skip" /\ n[t].fetch = 0 /\ result[t] = "device"

\* C14: every GET /location and every token request is issued by a task
\* holding the lock, and no two GET /location and no two token requests of
\* the client are outstanding together.
C14_RequestsUnderLock ==
    /\ \A t \in Tasks : pc[t] \in {"get_wait", "auth_wait"} => temp_lock = t
    /\ \A t, u \in Tasks :
          (t # u /\ pc[t] = pc[u]) => pc[t] \notin {"get_wait", "auth_wait"}

\* the snapshot is the parse of one payload (or the empty list of the
\* constructor)
OneFetch(ls) == ls = << >> \/ \E p \in Payloads : ls = ParseLocations(p)

\* C15: the snapshot held is always the whole result of one fetch; the
\* snapshot and the time of the last refresh change only together, in the
\* step that handles a 200; what a lookup returns is scanned from the one
\* snapshot held at the step its refresh returns.
C15_AllOrNothing ==
    [][/\ OneFetch(locations')
       /\ (locations' # locations \/ since_update' < since_update)
          => (/\ since_update' = 0 /\ loaded'
              /\ \E t \in Tasks : /\ pc[t] = "get_wait" /\ ev'[t] = "loc_200"
                                  /\ locations' = got'[t])
       /\ \A t \in Tasks :
             (/\ op[t] = "get_device" /\ pc[t] # "done" /\ pc'[t] = "done"
              /\ ev'[t] \in {"skip", "loc_200"})
             => (/\ out'[t] = FirstWithGuid(AllDevices(locations'), arg[t])
                 /\ ev'[t] = "loc_200" => locations' = got'[t])]_vars

\* two lookups whose fetches replaced the snapshot one after the other:
\* the earlier one holds the device of the earlier snapshot
C15_Witness ==
    \E t, u \in Tasks :
        /\ t # u /\ Done(t) /\ Done(u)
        /\ ev[t] = "loc_200" /\ ev[u] = "loc_200"
        /\ got[t] # locations /\ got[u] = locations
        /\ out[t] # << >> /\ out[u] # << >> /\ out[t] # out[u]

\* the step in which task t handles the 200 of a token request
Handles200(t) ==
    pc[t] = "auth_wait" /\ ev'[t] \in {"auth_200", "listener_raise"}

\* the step in which a token request of task t fails
HandlesAuthFailure(t) ==
    pc[t] = "auth_wait" /\ ev'[t] \in {"auth_fail", "auth_raise"}

\* the first m registered listeners, each once, in the order of
\* registration, with the credential c
Notified(m, c) ==
    [i \in 1..m |-> [listener |-> auth_update_listeners[i], auth |-> c]]

\* C16: handling the 200 of a token request stores the credential
\* "<token_type> <access_token>" of the body and invokes the registered
\* listeners in the order of registration with that credential; when the
\* authentication reports success every listener has been invoked exactly
\* once; a failed authentication invokes none, and listeners are invoked
\* at no other time.
C16_ListenersNotified ==
    [][\A t \in Tasks :
          /\ Handles200(t)
             => (/\ \E r \in Tokens :
                       authorization' = <<r.token_type, " ", r.access_token>>
                 /\ \E m \in 0..Len(auth_update_listeners) :
                       /\ told'[t] = told[t] \o Notified(m, authorization')
                       /\ ev'[t] = "auth_200" => m = Len(auth_update_listeners)
                 /\ ev'[t] = "auth_200" => result'[t] \in {"pending", "credential"})
          /\ HandlesAuthFailure(t) => told'[t] = told[t]
          /\ told'[t] # told[t] => (Handles200(t) \/ pc[t] = "done")]_vars

\* two listeners registered l2 first: both were invoked, l2 first, with the
\* credential now stored
C16_Witness ==
    \E t \in Tasks :
        /\ auth_update_listeners = <<"l2", "l1">>
        /\ ev[t] = "auth_200" /\ pc[t] = "get_wait"
        /\ told[t] = << [listener |-> "l2", auth |-> authorization],
                        [listener |-> "l1", auth |-> authorization] >>

\* C17: a token request that fails (status other than 200, or transport
\* failure) leaves the credential, the snapshot and the time of the last
\* refresh as they were.
C17_FailedAuthFrame ==
    [][\A t \in Tasks :
          HandlesAuthFailure(t)
          => (/\ authorization' = authorization
              /\ locations' = locations
              /\ since_update' = since_update /\ loaded' = loaded)]_vars

\* a refresh ended by a failed re-authentication, the credential and the
\* snapshot held before still held
C17_Witness ==
    \E t \in Tasks :
        /\ Done(t) /\ ev[t] = "auth_fail" /\ result[t] = "False"
        /\ authorization # NoAuth /\ loaded /\ locations # << >>

\* C18: when a listener raises while the 200 of a token request is handled,
\* the listeners after it are still invoked, the credential stays stored
\* and the authentication and the operation that triggered it go on as
\* after a success.
C18_ListenerIsolated ==
    [][\A t \in Tasks :
          Handles200(t)
          => (/\ Len(told'[t]) = Len(told[t]) + Len(auth_update_listeners)
              /\ authorization' # NoAuth
              /\ result'[t] # "raised")]_vars

\* C21: get_device finds, for the guid of every device get_devices returns
\* from the snapshot, a device with that guid: in the snapshot held, and
\* in a get_device served from the cache after a get_devices.
C21_DeviceOfDevices ==
    /\ \A i \in 1..Len(AllDevices(locations)) :
          LET g == AllDevices(locations)[i].guid
              d == FindDevice(locations, g)
          IN  Len(d) = 1 /\ d[1].guid = g
    /\ \A t \in Tasks :
          (/\ Done(t) /\ op[t] = "get_device" /\ ~force[t] /\ ev[t] = "skip"
           /\ prev[t].op = "get_devices"
           /\ \E i \in 1..Len(prev[t].out) : prev[t].out[i].guid = arg[t])
          => (/\ result[t] = "device" /\ Len(out[t]) = 1
              /\ out[t][1].guid = arg[t])

\* get_device("d1") served from the cache after a get_devices that returned
\* several devices
C21_Witness ==
    \E t \in Tasks :
        /\ Done(t) /\ op[t] = "get_device" /\ ~force[t] /\ ev[t] = "skip"
        /\ prev[t].op = "get_devices" /\ Len(prev[t].out) >= 2
        /\ result[t] = "device" /\ out[t][1].guid = arg[t]
        /\ Len(AllDevices(locations)) >= 2

\* the places of the devices in the tree ls: location, zone, device
Places(ls) ==
    {x \in (1..Len(ls)) \X (1..3) \X (1..3) :
        /\ x[2] <= Len(ls[x[1]].zones)
        /\ x[3] <= Len(ls[x[1]].zones[x[2]].devices)}

\* place x comes before place y: location first, then zone, then device
Before(x, y) ==
    \/ x[1] < y[1]
    \/ x[1] = y[1] /\ x[2] < y[2]
    \/ x[1] = y[1] /\ x[2] = y[2] /\ x[3] < y[3]

\* C22: the list get_devices returns after a successful refresh has one
\* entry for every device place of the snapshot, and the device of a place
\* stands at the position given by the number of places before it
\* (location order, then zone order, then device order): nothing is
\* sorted, dropped or merged.
C22_FlattenInOrder ==
    [][\A t \in Tasks :
          (/\ op[t] = "get_devices" /\ pc[t] # "done" /\ pc'[t] = "done"
           /\ ev'[t] \in {"skip", "loc_200"})
          => LET ps == Places(locations')
             IN  /\ result'[t] = "list"
                 /\ Len(out'[t]) = Cardinality(ps)
                 /\ \A x \in ps :
                       out'[t][Cardinality({y \in ps : Before(y, x)}) + 1]
                          = locations'[x[1]].zones[x[2]].devices[x[3]]]_vars

\* the list of PayloadC: d4 before d1, and d1 twice
C22_Witness ==
    \E t \in Tasks :
        /\ Done(t) /\ op[t] = "get_devices" /\ result[t] = "list"
        /\ Len(out[t]) = 3
        /\ out[t][1].guid = "d4" /\ out[t][2].guid = "d1" /\ out[t][3].guid = "d1"

\* the devices a finished get_devices holds
Returns(t, d) ==
    /\ Done(t) /\ op[t] = "get_devices"
    /\ \E i \in 1..Len(out[t]) : out[t][i] = d

\* the devices the bodies of ScanPayloads can put into a snapshot
ScanDevices ==
    UNION {{AllDevices(ParseLocations(p))[i] :
              i \in 1..Len(AllDevices(ParseLocations(p)))} : p \in ScanPayloads}

C29_ValidFollowsDataValid ==
    \A t \in Tasks : \A d \in ScanDevices :
        Returns(t, d)
        => (/\ d.data.data_valid = "true" => Valid(d)
            /\ d.data.data_valid = "false" => ~Valid(d)
            /\ d.data.data_valid = Null => (Valid(d) <=> d.guid # Null))

\* a list holding a device without guid whose data_valid is true: valid
C29_Witness ==
    \E t \in Tasks : \E d \in ScanDevices :
        /\ Returns(t, d) /\ d.guid = Null /\ d.data.data_valid = "true"
        /\ Valid(d)

\* C25: a send_* call that has ended has ended with a boolean, whatever
\* the server answered to the command, the polls and the refresh.
C25_SendEndsWithBoolean ==
    \A t \in Tasks :
        (Done(t) /\ op[t] \in SendOps) => result[t] \in {"True", "False"}

\* the step in which task t issues a token request
IssuesAuth(t) == pc[t] # "auth_wait" /\ pc'[t] = "auth_wait"

\* C27: a token request is issued only on a 401 of GET /location (or by
\* the authorization property asked for a credential when none is held);
\* the command POST and the polls of a send_* issue none, a poll answered
\* with a status other than 200 ends the call with false, and no token
\* request follows a token request of the same call that failed.
C27_ReauthOnlyOn401 ==
    [][\A t \in Tasks :
          /\ IssuesAuth(t)
             => (\/ pc[t] = "get_wait" /\ ev'[t] = "loc_401"
                 \/ pc[t] = "idle" /\ op'[t] = "authorization")
          /\ (pc[t] \in {"post_wait", "poll_wait", "sleep"})
             => pc'[t] \in {"post_wait", "poll_wait", "sleep", "lock", "done"}
          /\ ev'[t] = "poll_bad" => (pc'[t] = "done" /\ result'[t] = "False")
          /\ IssuesAuth(t) => n[t].authfail = 0]_vars

\* C26: in a send_* call the command is posted once and first; a poll is
\* issued only after the answer "queued", for the task id of that answer;
\* the forced refresh is started only by a poll answered "completed", and
\* once it is started the call issues no further poll.
C26_SubmitPollRefresh ==
    [][\A t \in Tasks :
          (op[t] \in SendOps /\ op'[t] \in SendOps) =>
              /\ n'[t].post = 1
              /\ n'[t].poll > n[t].poll =>
                     /\ task_id'[t] \in TaskIds
                     /\ ev'[t] = "queued" \/ task_id'[t] = task_id[t]
                     /\ req'[t].kind = "task" /\ req'[t].task = task_id'[t]
              /\ n'[t].refresh > n[t].refresh =>
                     pc[t] = "poll_wait" /\ ev'[t] = "completed"
              /\ n[t].refresh >= 1 => n'[t].poll = n[t].poll]_vars

\* the credential a request of task t must carry when it is issued
IssuedWith(t) == req'[t].headers.Authorization = authorization'

\* C28: a request to the API carries the credential the client holds when
\* the request is issued: the GET /location retried after a successful
\* token request, and every request after it, carries the new credential.
C28_CurrentCredential ==
    [][\A t \in Tasks :
          (req'[t] # req[t] /\ req'[t].kind \in {"location", "command", "task"})
              => IssuedWith(t)]_vars

\* a GET /location has been retried with a credential that replaced
\* another one
C28_Witness ==
    \E t \in Tasks :
        /\ ev[t] = "auth_200" /\ pc[t] = "get_wait"
        /\ req[t].kind = "location"
        /\ req[t].headers.Authorization = authorization
        /\ authorization # StoredAuth

\* C24: the snapshot held by the client changes only when a GET /location
\* answered 200 replaces it: no step of an entity operation or of a send_*
\* call writes into a device or zone of the snapshot.
C24_CacheChangesOnlyByFetch ==
    [][locations' # locations
          => \E t \in Tasks : pc[t] = "get_wait" /\ ev'[t] = "loc_200"]_vars

\* C30: when the heater switch cannot convert t_set or speed of its device
\* to int, the text being no number or the value being absent, the
\* operation returns normally and no command is posted.
C30_UnconvertibleSkipped ==
    \A t \in Tasks :
        (op[t] = "heater_switch" /\ ev[t] \in {"t_set", "speed"})
            => (pc[t] = "done" /\ result[t] = "None")

\* the step in which a GET /location is answered 200
Answered200 == \E t \in Tasks : pc[t] = "get_wait" /\ ev'[t] = "loc_200"

\* C32: the time of the last refresh is set only by a GET /location
\* answered 200; while no fetch has succeeded, and once the interval has
\* passed, a refresh without force that gets the lock issues a fetch.
C32_OnlySuccessArms ==
    [][/\ since_update' < since_update => Answered200
       /\ loaded' # loaded => Answered200
       /\ \A t \in Tasks :
             (/\ pc[t] = "lock" /\ pc'[t] # "lock" /\ ~force[t]
              /\ ~loaded \/ since_update >= MinUpdateInterval)
                 => /\ pc'[t] = "get_wait"
                    /\ n'[t].fetch = n[t].fetch + 1
                    /\ req'[t].kind = "location"]_vars

\* a second lookup without force, made less than one interval after a
\* first one that fetched nothing, has issued a fetch
C32_Witness ==
    \E t \in Tasks :
        /\ within[t] /\ ~force[t] /\ ~loaded
        /\ pc[t] = "get_wait" /\ req[t].kind = "location"

\* the lookup of task t has ended with an answer out of the snapshot
Answered(t) ==
    Done(t) /\ op[t] \in Lookups \ {"authorization"} /\ result[t] # "raised"

\* C33 as stated: a lookup without force made at least one interval after
\* the last successful fetch does not answer before it has issued a
\* GET /location itself.
C33_StaleLookupFetches ==
    \A t \in Tasks : (Answered(t) /\ stale[t] # "no") => n[t].fetch >= 1

\* C33: a lookup without force made at least one interval after the last
\* successful fetch does not answer before it has issued a GET /location
\* itself, unless a GET /location of another call was answered 200 after
\* the lookup was made.
C33_StaleLookupFetchesOrWaited ==
    \A t \in Tasks : (Answered(t) /\ stale[t] = "yes") => n[t].fetch >= 1

\* a lookup made after the interval had passed has answered, and no other
\* call refreshed the snapshot meanwhile
C33_Witness ==
    \E t \in Tasks :
        /\ Answered(t) /\ stale[t] = "yes" /\ loaded
        /\ ev[t] = "loc_200"

\* the zones of a payload, location by location
PayloadZones(p) ==
    {z \in UNION {{l.zones[j] : j \in 1..Len(l.zones)} :
                      l \in {p[i] : i \in 1..Len(p)}} : TRUE}
ZoneDeviceGuids(z) == {z.devices[k].guid : k \in 1..Len(z.devices)}
\* the guids of the virtual zones of a payload
VirtualZoneGuids(p) == {z.guid : z \in {y \in PayloadZones(p) : y.is_virtual}}
\* the guids of the devices a payload lists in virtual zones only
VirtualOnlyDevices(p) ==
    UNION {ZoneDeviceGuids(z) : z \in {y \in PayloadZones(p) : y.is_virtual}}
    \ UNION {ZoneDeviceGuids(z) : z \in {y \in PayloadZones(p) : ~y.is_virtual}}
GuidsOf(seq) == {seq[i].guid : i \in 1..Len(seq)}

\* C35: the snapshot parsed from a payload holds none of the payload's
\* virtual zones; get_zone and get_device_zone return no such zone, and
\* get_device and get_devices return no device the payload lists in
\* virtual zones only.
C35_NoVirtualZone ==
    \A p \in ScanPayloads :
        locations = ParseLocations(p) =>
            /\ GuidsOf(AllZones(locations)) \cap VirtualZoneGuids(p) = {}
            /\ \A t \in Tasks :
                  (Done(t) /\ op[t] \in {"get_zone", "get_device_zone"})
                      => GuidsOf(out[t]) \cap VirtualZoneGuids(p) = {}
            /\ \A t \in Tasks :
                  (Done(t) /\ op[t] \in {"get_device", "get_devices"})
                      => GuidsOf(out[t]) \cap VirtualOnlyDevices(p) = {}

\* get_zone has been asked for the virtual zone of the payload just
\* fetched, and get_device for a device listed in a virtual and a real zone
C35_Witness ==
    /\ locations = ParseLocations(PayloadW)
    /\ \E t \in Tasks :
          /\ Done(t) /\ ev[t] = "loc_200"
          /\ \/ op[t] = "get_zone" /\ arg[t] = "Zv" /\ result[t] = "None"
             \/ op[t] = "get_device" /\ arg[t] = "d3" /\ result[t] = "None"

\* C36: a call of the authorization property with a credential held
\* issues a GET /location whatever the time of the last refresh; the call
\* ends by returning the credential held or None, and it returns the
\* credential exactly when the token request it made for want of a
\* credential, or its GET /location, was answered 200.
C36_AuthorizationProperty ==
    [][\A t \in Tasks :
          /\ (pc[t] = "idle" /\ op'[t] = "authorization"
                 /\ authorization # NoAuth)
                => (pc'[t] = "get_wait" /\ req'[t].kind = "location")
          /\ (pc[t] # "done" /\ pc'[t] = "done" /\ op[t] = "authorization")
                => /\ result'[t] \in {"credential", "None"}
                   /\ result'[t] = "credential"
                        <=> \/ ev'[t] = "loc_200"
                            \/ ev'[t] = "auth_200" /\ n[t].fetch = 0
                   /\ result'[t] = "credential"
                        => out'[t] = authorization' /\ out'[t] # NoAuth]_vars

\* the body of a get_location_data call of task t is running
Refreshing(t) == pc[t] \in {"get_wait", "auth_wait"} /\ op[t] # "authorization"

\* C34: the lock is held exactly while the body of a get_location_data
\* call runs, by the task of that call; a task that holds it is never
\* waiting for it; and a caller waiting for the lock gets it.
C34_LockFreedom ==
    /\ [](\A t \in Tasks : temp_lock = t <=> Refreshing(t))
    /\ [](\A t \in Tasks : pc[t] = "lock" => temp_lock # t)
    /\ \A t \in Tasks : (pc[t] = "lock") ~> (pc[t] # "lock")

\* the caller found the lock held by the refresh that follows a completed
\* poll, waited for it, and now refreshes under the lock itself
C34_Witness ==
    /\ pc[LockCaller] = "get_wait" /\ temp_lock = LockCaller
    /\ waited[LockCaller] \in {"ok", "failed"}
    /\ op[LockSender] = "send_zone" /\ n[LockSender].refresh >= 1

\* C31: the synchronous wait_for_task issues at most int(max_time / 0.5)
\* polls; when every poll was answered 200 without "completed" it has
\* returned false after that many polls; after a poll answered "completed"
\* it has made one forced refresh and returned true.
C31_SyncPollBudget ==
    /\ sync.polls <= PollLimit(sync.max_time)
    /\ (sync.pc = "done" /\ sync.ev \in {"pending", "no_poll"})
          => (sync.result = "False" /\ sync.polls = PollLimit(sync.max_time))
    /\ (sync.pc = "done" /\ sync.refreshes >= 1)
          => (sync.result = "True" /\ sync.refreshes = 1)
    /\ sync.result = "True" => sync.refreshes = 1

C38_ZoneBeforeBreezer ==
    (climate.op = "set_fan_mode") =>
        LET cmds == climate.cmds
            new_mode == IF climate.arg = FAN_AUTO THEN "auto" ELSE "manual"
            changed == climate.before[2] # new_mode
            breezer == InList("send_breezer", cmds)
            old == climate.before[6]
        IN  IF ~InList(climate.arg, FanModes) THEN cmds = << >>
            ELSE /\ changed => (cmds # << >> /\ cmds[1] = "send_zone")
                 /\ (changed /\ breezer) =>
                        (Len(cmds) >= 3 /\ cmds[2] = "zone_returned"
                            /\ cmds[3] = "send_breezer")
                 /\ climate.arg = FAN_AUTO => ~breezer
                 /\ breezer =>
                        /\ climate.mode = "manual"
                        /\ SpeedRaises(old) # "TypeError"
                        /\ SpeedRaises(old) = "none"
                               => IntOf(old) # climate.new_speed

====
